---- MODULE Spec2Model ----
(***************************************************************************)
(* A model of the layer synchronisation core of js_up:                     *)
(*   - int64_to_int32      (src/controllers/data/convert.py)               *)
(*   - export_working_dir  (src/controllers/data/export_data.py)           *)
(*   - import_shp_dir      (src/controllers/repo/data_import.py)           *)
(*   - execute_function    (src/run.py)                                    *)
(*   - gpkg_to_shps        (src/pyqgis/gpkg_to_shps.py)                    *)
(* Each function is a sequential program; its position is a pc variable    *)
(* and every loop iteration or library call that mutates state is one      *)
(* action.                                                                 *)
(***************************************************************************)
EXTENDS Integers, Sequences, FiniteSets, TLC

VARIABLES
    \* ---- the GeoPackage container and int64_to_int32 ----
    layers,           \* the container: sequence of layers
    openable,         \* whether gdal.OpenEx can open the container
    pc,               \* position of int64_to_int32
    li,               \* layer_index (1-based)
    existing_fields,  \* snapshot of the field names of the current layer
    fields_to_convert,\* names of the Integer64 fields of the current layer
    fi,               \* position in fields_to_convert (1-based)
    cur,              \* read cursor of the layer (next feature to fetch)
    out,              \* what the pass has printed
    hist,             \* the container at the start of each invocation
    ends,             \* how each earlier invocation ended
    \* ---- export_working_dir ----
    listed,           \* layers: the names printed by "kart data ls"
    exclude_layers,   \* parameter
    include_layers,   \* parameter
    export_empty_layers, \* parameter
    env,              \* what the host gives: file, kart, open, driver
    create_fails,     \* layer names whose shapefile cannot be created
    feature_fails,    \* layer names with a feature that cannot be written
    artifacts,        \* the shapefiles of output_dir, by path
    epc,              \* position of export_working_dir
    ei,               \* position in the layer list (1-based)
    eout,             \* what the pass has printed
    art0,             \* the shapefiles when the pass began
    passes,           \* how many passes of export_working_dir have begun
    \* ---- import_shp_dir ----
    impl,             \* the module: "data_import" or "import_data"
    cwd,              \* the working directory of the process
    cwd0,             \* the working directory before the call
    original_cwd,     \* local variable
    entries,          \* os.listdir(shp_dir), in the order it gives
    host,             \* whether os.chdir(kart_repo) and os.listdir succeed
    tool,             \* what "kart import" does for each path
    shps,             \* the list being iterated
    ii,               \* position in shps (1-based)
    ipc,              \* position of import_shp_dir
    calls,            \* the argument lists given to subprocess.run
    iout,             \* what the function has printed
    \* ---- run.py ----
    function_name,    \* the name given to execute_function; "" before
    \* ---- gpkg_to_shps ----
    layers_to_export, \* the names of the layers that passed the filter
    gpc,              \* position of gpkg_to_shps
    gi,               \* position in layers_to_export (1-based)
    gout,             \* what the function has logged
    \* ---- shp_overview ----
    data_dir,         \* the files of data_dir, in the order os.listdir gives
    dir_ok,           \* whether os.listdir(data_dir) succeeds
    spc,              \* position of shp_overview
    si,               \* position in the listing (1-based)
    sout              \* what the function has printed

cvars == <<layers, openable, pc, li, existing_fields, fields_to_convert, fi,
           cur, out, hist, ends>>

evars == <<listed, exclude_layers, include_layers, export_empty_layers, env,
           create_fails, feature_fails, artifacts, epc, ei, eout, art0, passes>>

ivars == <<impl, cwd, cwd0, original_cwd, entries, host, tool, shps, ii, ipc,
           calls, iout>>

\* gpkg_to_shps
gvars == <<layers_to_export, gpc, gi, gout>>

\* shp_overview
svars == <<data_dir, dir_ok, spc, si, sout>>

vars == <<cvars, evars, ivars, function_name, gvars, svars>>

----------------------------------------------------------------------------
(* Bounds of the model *)

MaxFields == 2      \* fields per layer in the initial container
MaxFeat == 1        \* features per layer in the initial container
MaxRuns == 2        \* invocations of int64_to_int32 on the same container
MaxPasses == 2      \* passes of export_working_dir over the same output_dir

----------------------------------------------------------------------------
(* Values.  A field value is None or an integer; None is <<>> and the      *)
(* integer v is <<[q |-> v \div 2^31, r |-> v % 2^31]>>, so that 64-bit    *)
(* values on both sides of the Int32 boundaries are representable.         *)

R31Max == 2147483647

None == <<>>

I(q, r) == <<[q |-> q, r |-> r]>>

\* -2147483648 and 2147483647, the literals of convert.py line 93
Int32Min == I(-1, 0)
Int32Max == I(0, R31Max)

\* a <= b on integers
Leq(a, b) == \/ a[1].q < b[1].q
             \/ a[1].q = b[1].q /\ a[1].r <= b[1].r

\* a variant with a strict upper comparison
InRangeStrict(v) == Leq(Int32Min, v) /\ Leq(v, Int32Max) /\ v # Int32Max

\* line 93: -2147483648 <= old_value <= 2147483647
InRange(v) == Leq(Int32Min, v) /\ Leq(v, Int32Max)

\* the Integer64 values of the initial containers:
\* None, -2147483649, -2147483648, 0, 2147483647, 2147483648
BoundaryVals == {None, I(-2, R31Max), I(-1, 0), I(0, 0), I(0, R31Max), I(1, 0)}

\* a smaller family: None, 5, 2147483648
FewVals == {None, I(0, 5), I(1, 0)}

\* values of fields of another type
OtherVals == {None, I(0, 7)}

----------------------------------------------------------------------------
(* Field names are strings, written as sequences of characters.            *)

Int32Suffix == <<"_", "i", "n", "t", "3", "2">>

\* line 68: field_name + "_int32"
WorkName(n) == n \o Int32Suffix

InitNames == {<<"a">>, <<"a">> \o Int32Suffix, <<"b">>}

OFTInteger64 == "Integer64"
OFTInteger == "Integer"
Types == {OFTInteger64, OFTInteger}

Range(s) == {s[i] : i \in 1..Len(s)}

NamesOf(fields) == {fields[i].name : i \in 1..Len(fields)}

\* layer_defn.GetFieldIndex(name); 0 when there is no such field
GetFieldIndex(fields, n) ==
    IF \E i \in 1..Len(fields) : fields[i].name = n
    THEN CHOOSE i \in 1..Len(fields) : fields[i].name = n
    ELSE 0

TypeOf(fields, n) == fields[GetFieldIndex(fields, n)].type

RemoveAt(s, i) == [j \in 1..(Len(s) - 1) |-> IF j < i THEN s[j] ELSE s[j + 1]]

----------------------------------------------------------------------------
(* Initial containers *)

FieldDefs == [name : InitNames, type : Types]

\* the schemas of at most n fields with distinct names
SchemasUpTo(n) ==
    {s \in UNION {[1..m -> FieldDefs] : m \in 0..n} :
        \A i, j \in 1..Len(s) : i # j => s[i].name # s[j].name}

\* the features a layer with schema s can hold: Integer64 fields hold a
\* value of v64, the other fields a value of vother
FeaturesOf(s, v64, vother) ==
    {[geom |-> "point", attrs |-> f] :
        f \in {g \in [NamesOf(s) -> v64 \cup vother] :
                  \A n \in NamesOf(s) :
                      g[n] \in (IF TypeOf(s, n) = OFTInteger64
                                THEN v64 ELSE vother)}}

LayersOf(lname, schemas, v64, vother, nfeat) ==
    UNION {{[name |-> lname, fields |-> s, feats |-> fs] :
               fs \in UNION {[1..n -> FeaturesOf(s, v64, vother)] : n \in nfeat}} :
           s \in schemas}

NoOut == [open_failed |-> FALSE, processing |-> {}, skipped |-> {},
          converting |-> {}, warned |-> {}, complete |-> FALSE]

\* The initial containers: no layer; one layer of up to MaxFields fields
\* with one feature holding the boundary values; one layer of up to two
\* fields with up to MaxFeat features holding few values; two layers of up
\* to two fields with one feature each.
InitContainers ==
    {<<>>}
    \cup {<<l>> : l \in LayersOf("L1", SchemasUpTo(MaxFields), BoundaryVals,
                                 OtherVals, {1})}
    \cup {<<l>> : l \in LayersOf("L1", SchemasUpTo(2), FewVals, OtherVals,
                                 0..MaxFeat)}
    \cup {<<l1, l2>> : l1 \in LayersOf("L1", SchemasUpTo(2), {I(0, 5)},
                                       {I(0, 7)}, {1}),
                      l2 \in LayersOf("L2", SchemasUpTo(2), {I(1, 0)},
                                       {None}, {1})}

\* export_working_dir is not called
ExportNotCalled ==
    /\ listed = <<>>
    /\ exclude_layers = {}
    /\ include_layers = {}
    /\ export_empty_layers = FALSE
    /\ env = [file |-> TRUE, kart |-> TRUE, open |-> TRUE, driver |-> TRUE]
    /\ create_fails = {}
    /\ feature_fails = {}
    /\ artifacts = <<>>
    /\ epc = "none"
    /\ ei = 0
    /\ eout = <<>>
    /\ art0 = <<>>
    /\ passes = 0

\* gpkg_to_shps is not called
\* shp_overview is not called
InspectNotCalled ==
    /\ data_dir = <<>>
    /\ dir_ok = TRUE
    /\ spc = "none"
    /\ si = 0
    /\ sout = <<>>

GpkgNotCalled ==
    /\ layers_to_export = <<>>
    /\ gpc = "none"
    /\ gi = 0
    /\ gout = <<>>

\* import_shp_dir is not called
ImportNotCalled ==
    /\ impl = "data_import"
    /\ cwd = "home"
    /\ cwd0 = "home"
    /\ original_cwd = ""
    /\ entries = <<>>
    /\ host = [chdir |-> TRUE, listdir |-> TRUE]
    /\ tool = <<>>
    /\ shps = <<>>
    /\ ii = 0
    /\ ipc = "none"
    /\ calls = <<>>
    /\ iout = <<>>

InitCoerce ==
    /\ ExportNotCalled
    /\ ImportNotCalled
    /\ layers \in InitContainers
    /\ openable \in BOOLEAN
    /\ pc = "call"
    /\ li = 0
    /\ existing_fields = <<>>
    /\ fields_to_convert = <<>>
    /\ fi = 0
    /\ cur = 0
    /\ out = NoOut
    /\ hist = <<layers>>
    /\ ends = <<>>
    /\ function_name = ""
    /\ GpkgNotCalled
    /\ InspectNotCalled

----------------------------------------------------------------------------
(* int64_to_int32 *)

\* a variant that stops at the first Integer64 field
Int64FieldsFirstOnly(fields) ==
    IF \E i \in 1..Len(fields) : fields[i].type = OFTInteger64
    THEN <<fields[CHOOSE i \in 1..Len(fields) :
                    /\ fields[i].type = OFTInteger64
                    /\ \A j \in 1..(i - 1) : fields[j].type # OFTInteger64].name>>
    ELSE <<>>

\* lines 61-64: the names of the Integer64 fields, in schema order
RECURSIVE Int64Fields(_)
Int64Fields(fields) ==
    IF fields = <<>> THEN <<>>
    ELSE (IF Head(fields).type = OFTInteger64 THEN <<Head(fields).name>> ELSE <<>>)
         \o Int64Fields(Tail(fields))

\* a variant whose snapshot holds the names of the Integer64 fields only
FieldNamesOfInt64(fields) == Int64Fields(fields)

\* lines 56-59
FieldNames(fields) == [i \in 1..Len(fields) |-> fields[i].name]

\* a variant that never finds the work field
AlreadyExistsNever(new_field_name, existing) == FALSE

\* line 71: new_field_name in existing_fields
AlreadyExists(new_field_name, existing) == new_field_name \in Range(existing)

\* lines 78-79: layer.CreateField(FieldDefn(new_field_name, OFTInteger)); the
\* new field is appended to the schema and is unset in every feature
CreateField(layer, n) ==
    [layer EXCEPT
        !.fields = Append(@, [name |-> n, type |-> OFTInteger]),
        !.feats = [k \in 1..Len(@) |->
                      [@[k] EXCEPT !.attrs =
                          [m \in DOMAIN @ \cup {n} |->
                              IF m = n THEN None ELSE @[m]]]]]

\* lines 90-100: the feature after the copy of field_name into new_field_name
CopyValue(feature, field_name, new_field_name) ==
    LET old_value == feature.attrs[field_name]
    IN  IF old_value # None
        THEN IF InRange(old_value)
             THEN [feature EXCEPT !.attrs[new_field_name] = old_value]
             ELSE feature
        ELSE feature

\* lines 95-98: the warning is printed for a value outside the range
Warns(feature, field_name) ==
    feature.attrs[field_name] # None /\ ~InRange(feature.attrs[field_name])

\* a variant that deletes the first field of the layer
DeleteFieldFirst(layer, idx) ==
    LET n == layer.fields[1].name
    IN  [layer EXCEPT
            !.fields = RemoveAt(@, 1),
            !.feats = [k \in 1..Len(@) |->
                          [@[k] EXCEPT !.attrs =
                              [m \in DOMAIN @ \ {n} |-> @[m]]]]]

\* line 104: layer.DeleteField(index)
DeleteField(layer, idx) ==
    LET n == layer.fields[idx].name
    IN  [layer EXCEPT
            !.fields = RemoveAt(@, idx),
            !.feats = [k \in 1..Len(@) |->
                          [@[k] EXCEPT !.attrs =
                              [m \in DOMAIN @ \ {n} |-> @[m]]]]]

\* lines 109-113: layer.AlterFieldDefn(index, FieldDefn(name, OFTInteger),
\* ALTER_NAME_FLAG): only the name of the field changes
AlterFieldName(layer, idx, name) ==
    LET n == layer.fields[idx].name
    IN  [layer EXCEPT
            !.fields[idx].name = name,
            !.feats = [k \in 1..Len(@) |->
                          [@[k] EXCEPT !.attrs =
                              [m \in (DOMAIN @ \ {n}) \cup {name} |->
                                  IF m = name THEN @[n] ELSE @[m]]]]]

field_name == fields_to_convert[fi]
new_field_name == WorkName(field_name)

\* a variant without the check of line 41
OpenExNoCheck ==
    /\ pc = "call"
    /\ pc' = "layer"
    /\ li' = 1
    /\ UNCHANGED <<layers, openable, existing_fields, fields_to_convert, fi,
                   cur, out, hist, ends, evars, ivars, function_name, gvars, svars>>

\* lines 38-43: gdal.OpenEx, and the return when it gives nothing
OpenEx ==
    /\ pc = "call"
    /\ IF openable
       THEN /\ pc' = "layer"
            /\ li' = 1
            /\ out' = out
       ELSE /\ pc' = "returned"
            /\ li' = li
            /\ out' = [out EXCEPT !.open_failed = TRUE]
    /\ UNCHANGED <<layers, openable, existing_fields, fields_to_convert, fi,
                   cur, hist, ends, evars, ivars, function_name, gvars, svars>>

\* lines 46-64: the next layer of the container, its field snapshot and its
\* Integer64 fields
NextLayer ==
    /\ pc = "layer"
    /\ li <= Len(layers)
    /\ existing_fields' = FieldNames(layers[li].fields)
    /\ fields_to_convert' = Int64Fields(layers[li].fields)
    /\ fi' = 1
    /\ out' = [out EXCEPT !.processing = @ \cup {li}]
    /\ pc' = "field"
    /\ UNCHANGED <<layers, openable, li, cur, hist, ends, evars, ivars, function_name, gvars, svars>>

\* lines 116-120: after the last layer the dataset is released and the
\* completion is printed
Complete ==
    /\ pc = "layer"
    /\ li > Len(layers)
    /\ out' = [out EXCEPT !.complete = TRUE]
    /\ pc' = "returned"
    /\ UNCHANGED <<layers, openable, li, existing_fields, fields_to_convert,
                   fi, cur, hist, ends, evars, ivars, function_name, gvars, svars>>

\* lines 67 and 116: no field left in fields_to_convert, on to the next layer
LayerDone ==
    /\ pc = "field"
    /\ fi > Len(fields_to_convert)
    /\ li' = li + 1
    /\ pc' = "layer"
    /\ UNCHANGED <<layers, openable, existing_fields, fields_to_convert, fi,
                   cur, out, hist, ends, evars, ivars, function_name, gvars, svars>>

\* lines 68-73: the work field is in the snapshot, the field is skipped
SkipField ==
    /\ pc = "field"
    /\ fi <= Len(fields_to_convert)
    /\ AlreadyExists(new_field_name, existing_fields)
    /\ out' = [out EXCEPT !.skipped = @ \cup {<<li, field_name>>}]
    /\ fi' = fi + 1
    /\ UNCHANGED <<layers, openable, pc, li, existing_fields,
                   fields_to_convert, cur, hist, ends, evars, ivars, function_name, gvars, svars>>

\* lines 75-83: the work field is created and the reading is reset
StartField ==
    /\ pc = "field"
    /\ fi <= Len(fields_to_convert)
    /\ ~AlreadyExists(new_field_name, existing_fields)
    /\ out' = [out EXCEPT !.converting = @ \cup {<<li, field_name>>}]
    /\ layers' = [layers EXCEPT ![li] = CreateField(@, new_field_name)]
    /\ cur' = 1
    /\ pc' = "copy"
    /\ UNCHANGED <<openable, li, existing_fields, fields_to_convert, fi,
                   hist, ends, evars, ivars, function_name, gvars, svars>>

\* lines 87-101: one iteration of the feature loop
CopyFeature ==
    /\ pc = "copy"
    /\ cur <= Len(layers[li].feats)
    /\ layers' = [layers EXCEPT ![li].feats[cur] =
                      CopyValue(@, field_name, new_field_name)]
    /\ out' = IF Warns(layers[li].feats[cur], field_name)
              THEN [out EXCEPT !.warned = @ \cup {<<li, field_name, cur>>}]
              ELSE out
    /\ cur' = cur + 1
    /\ UNCHANGED <<openable, pc, li, existing_fields, fields_to_convert, fi,
                   hist, ends, evars, ivars, function_name, gvars, svars>>

\* line 88: GetNextFeature gives nothing, the loop ends
CopyDone ==
    /\ pc = "copy"
    /\ cur > Len(layers[li].feats)
    /\ pc' = "delete"
    /\ UNCHANGED <<layers, openable, li, existing_fields, fields_to_convert,
                   fi, cur, out, hist, ends, evars, ivars, function_name, gvars, svars>>

\* line 104
DeleteOld ==
    /\ pc = "delete"
    /\ layers' = [layers EXCEPT ![li] =
                      DeleteField(@, GetFieldIndex(@.fields, field_name))]
    /\ pc' = "rename"
    /\ UNCHANGED <<openable, li, existing_fields, fields_to_convert, fi, cur,
                   out, hist, ends, evars, ivars, function_name, gvars, svars>>

\* lines 108-113
RenameNew ==
    /\ pc = "rename"
    /\ layers' = [layers EXCEPT ![li] =
                      AlterFieldName(@, GetFieldIndex(@.fields, new_field_name),
                                     field_name)]
    /\ fi' = fi + 1
    /\ pc' = "field"
    /\ UNCHANGED <<openable, li, existing_fields, fields_to_convert, cur, out,
                   hist, ends, evars, ivars, function_name, gvars, svars>>

\* the function has no try, no transaction and no rollback (lines 37-120):
\* when a call on the layer raises, the invocation ends where it is
Raises ==
    /\ \/ pc = "field" /\ fi <= Len(fields_to_convert)
                       /\ ~AlreadyExists(new_field_name, existing_fields)
       \/ pc = "copy" /\ cur <= Len(layers[li].feats)
       \/ pc = "delete"
       \/ pc = "rename"
    /\ pc' = "raised"
    /\ UNCHANGED <<layers, openable, li, existing_fields, fields_to_convert,
                   fi, cur, out, hist, ends, evars, ivars, function_name, gvars, svars>>

\* int64_to_int32 is called again on the same container
CallAgain ==
    /\ pc \in {"returned", "raised"}
    /\ Len(hist) < MaxRuns
    /\ hist' = Append(hist, layers)
    /\ ends' = Append(ends, pc)
    /\ pc' = "call"
    /\ li' = 0
    /\ existing_fields' = <<>>
    /\ fields_to_convert' = <<>>
    /\ fi' = 0
    /\ cur' = 0
    /\ out' = NoOut
    /\ UNCHANGED <<layers, openable, evars, ivars, function_name, gvars, svars>>

NextCoerce ==
    \/ OpenEx
    \/ NextLayer
    \/ Complete
    \/ LayerDone
    \/ SkipField
    \/ StartField
    \/ CopyFeature
    \/ CopyDone
    \/ DeleteOld
    \/ RenameNew
    \/ Raises
    \/ CallAgain

SpecCoerce == InitCoerce /\ [][NextCoerce]_vars

----------------------------------------------------------------------------
(* export_working_dir *)

\* layer names, as strings
Xa == <<"X", "a">>
xa == <<"x", "a">>
Rp == <<"R", "p">>
LayerNames == {Xa, xa, Rp}

\* line 97: layer_name.startswith("X")
StartsWithX(name) == Len(name) >= 1 /\ name[1] = "X"

\* a variant in which the include list is looked at first
IsEligibleAllowFirst(name, exclude, include) ==
    name \in include \/ (name \notin exclude /\ StartsWithX(name))

\* lines 95-97: the layer is not excluded, and is included or starts with "X"
IsEligible(name, exclude, include) ==
    name \notin exclude /\ (name \in include \/ StartsWithX(name))

\* line 99: gpkg_ds.GetLayerByName; 0 when the container has no such layer
GetLayerByName(ls, name) ==
    IF \E i \in 1..Len(ls) : ls[i].name = name
    THEN CHOOSE i \in 1..Len(ls) : ls[i].name = name
    ELSE 0

\* a variant that leaves the first character of the name out of the path
ShapefilePathTail(name) == SubSeq(name, 2, Len(name)) \o <<".", "s", "h", "p">>

\* line 119: os.path.join(output_dir, f"{layer_name}.shp")
ShapefilePath(name) == name \o <<".", "s", "h", "p">>

Paths == {ShapefilePath(n) : n \in LayerNames}

NoArtifact == <<>>

\* the width of a field name in the .dbf of a shapefile
ShpFieldWidth == 10

\* line 153: out_layer.CreateField(field_defn): the ESRI Shapefile driver
\* stores the first ShpFieldWidth characters of the name
ShpFieldName(n) ==
    IF Len(n) <= ShpFieldWidth THEN n ELSE SubSeq(n, 1, ShpFieldWidth)

\* lines 150-153: the fields of the source layer, created in order
CopyFields(fields) ==
    [i \in 1..Len(fields) |->
        [name |-> ShpFieldName(fields[i].name), type |-> fields[i].type]]

\* line 157: out_layer.CreateFeature(feature): geometry and attributes
CopyFeatureTo(fields, feature) ==
    [geom |-> feature.geom,
     attrs |-> [m \in {ShpFieldName(n) : n \in NamesOf(fields)} |->
                  feature.attrs[CHOOSE n \in NamesOf(fields) :
                                    ShpFieldName(n) = m]]]

\* a variant that loses the last feature of the layer
ShapefileOfShort(layer, n) ==
    [layer |-> layer.name,
     encoding |-> "encoding",
     fields |-> CopyFields(layer.fields),
     feats |-> [k \in 1..(n - 1) |-> CopyFeatureTo(layer.fields, layer.feats[k])]]

\* lines 131-160: the shapefile written from the layer, with its first n
\* features
ShapefileOf(layer, n) ==
    [layer |-> layer.name,
     encoding |-> "encoding",
     fields |-> CopyFields(layer.fields),
     feats |-> [k \in 1..n |-> CopyFeatureTo(layer.fields, layer.feats[k])]]

NoEout == [skipped |-> {}, not_found |-> {}, empty |-> {}, exporting |-> {},
           create_failed |-> {}, exported |-> {}, fatal |-> "",
           completed |-> FALSE]

(* Initial states of export_working_dir *)

IdField == <<"i", "d">>

\* "Id_lokal_int32", the name in the comment of convert.py line 107
IdLokalInt32 == <<"I", "d", "_", "l", "o", "k", "a", "l">> \o Int32Suffix

ShortSchema == <<[name |-> IdField, type |-> OFTInteger]>>

LongSchema == <<[name |-> IdField, type |-> OFTInteger],
                [name |-> IdLokalInt32, type |-> OFTInteger]>>

\* a layer with n features
LayerWith(name, schema, n) ==
    [name |-> name,
     fields |-> schema,
     feats |-> [k \in 1..n |->
                  [geom |-> "point",
                   attrs |-> [m \in NamesOf(schema) |->
                                IF m = IdField THEN I(0, k) ELSE I(0, 5)]]]]

\* what the container can hold under one name: nothing or one layer
LayerChoices(name) ==
    {<<>>}
    \cup {<<LayerWith(name, s, n)>> : s \in {ShortSchema, LongSchema},
                                     n \in 0..MaxFeat}

Containers ==
    {a \o b \o c : a \in LayerChoices(Xa), b \in LayerChoices(xa),
                   c \in LayerChoices(Rp)}

FullContainer(n) ==
    <<LayerWith(Xa, ShortSchema, n), LayerWith(xa, ShortSchema, n),
      LayerWith(Rp, ShortSchema, n)>>

\* the sequences of distinct names of a set
ListsOf(S) ==
    {s \in UNION {[1..n -> S] : n \in 0..Cardinality(S)} :
        \A i, j \in 1..Len(s) : i # j => s[i] # s[j]}

AllOk == [file |-> TRUE, kart |-> TRUE, open |-> TRUE, driver |-> TRUE]

StaleShapefile(n) ==
    [layer |-> n, encoding |-> "old", fields |-> <<>>,
     feats |-> <<[geom |-> "point", attrs |-> <<>>]>>]

NoShapefiles == [p \in Paths |-> NoArtifact]

StaleShapefiles ==
    [p \in Paths |-> StaleShapefile(CHOOSE n \in LayerNames : ShapefilePath(n) = p)]

ExportInput(c, l, ex, inc, e, h, cf, ff, a) ==
    [layers |-> c, listed |-> l, exclude |-> ex, include |-> inc,
     empty |-> e, env |-> h, create_fails |-> cf, feature_fails |-> ff,
     artifacts |-> a]

\* every exclude and include list over a full container
SelectionInputs ==
    {ExportInput(FullContainer(1), l, ex, inc, FALSE, AllOk, {}, {},
                 NoShapefiles) :
        l \in {<<Xa, xa, Rp>>, <<Rp, xa, Xa>>},
        ex \in SUBSET LayerNames, inc \in SUBSET LayerNames}

\* every container and every list of names
ContainerInputs ==
    {ExportInput(c, l, {}, {Rp}, e, AllOk, {}, {}, a) :
        c \in Containers, l \in ListsOf(LayerNames), e \in BOOLEAN,
        a \in {NoShapefiles, StaleShapefiles}}

\* three layers in every order, all eligible or all but one, with every set
\* of failures
FaultInputs ==
    {ExportInput(FullContainer(MaxFeat), l, {}, inc, FALSE, AllOk, cf, ff, a) :
        l \in {s \in ListsOf(LayerNames) : Len(s) = Cardinality(LayerNames)},
        inc \in {{Rp, xa}, {Rp}},
        cf \in SUBSET LayerNames, ff \in SUBSET LayerNames,
        a \in {NoShapefiles, StaleShapefiles}}

\* every host
HostInputs ==
    {ExportInput(<<LayerWith(Xa, ShortSchema, 1), LayerWith(xa, ShortSchema, 1),
                   LayerWith(Rp, ShortSchema, 0)>>,
                 l, {}, {Rp}, e, h, {}, {}, StaleShapefiles) :
        l \in {<<>>, <<xa>>, <<Rp, xa>>, <<Xa, Rp>>}, e \in BOOLEAN,
        h \in [file : BOOLEAN, kart : BOOLEAN, open : BOOLEAN, driver : BOOLEAN]}

ExportInputs == SelectionInputs \cup ContainerInputs \cup FaultInputs \cup HostInputs

\* int64_to_int32 is not called
CoerceNotCalled ==
    /\ openable = TRUE
    /\ pc = "none"
    /\ li = 0
    /\ existing_fields = <<>>
    /\ fields_to_convert = <<>>
    /\ fi = 0
    /\ cur = 0
    /\ out = NoOut
    /\ hist = <<layers>>
    /\ ends = <<>>

InitExport ==
    /\ \E x \in ExportInputs :
          /\ layers = x.layers
          /\ listed = x.listed
          /\ exclude_layers = x.exclude
          /\ include_layers = x.include
          /\ export_empty_layers = x.empty
          /\ env = x.env
          /\ create_fails = x.create_fails
          /\ feature_fails = x.feature_fails
          /\ artifacts = x.artifacts
    /\ art0 = artifacts
    /\ passes = 1
    /\ epc = "call"
    /\ ei = 0
    /\ eout = NoEout
    /\ CoerceNotCalled
    /\ ImportNotCalled
    /\ function_name = ""
    /\ GpkgNotCalled
    /\ InspectNotCalled

layer_name == listed[ei]

\* a variant without the empty-layer check
SelectedEmptyToo ==
    /\ epc = "loop"
    /\ ei <= Len(listed)
    /\ IsEligible(layer_name, exclude_layers, include_layers)
    /\ GetLayerByName(layers, layer_name) # 0

\* lines 95-107: the layer of the current name passes every check
Selected ==
    /\ epc = "loop"
    /\ ei <= Len(listed)
    /\ IsEligible(layer_name, exclude_layers, include_layers)
    /\ GetLayerByName(layers, layer_name) # 0
    /\ ~(Len(layers[GetLayerByName(layers, layer_name)].feats) = 0
         /\ ~export_empty_layers)

\* lines 45-50: the GeoPackage file does not exist
FileMissing ==
    /\ epc = "call"
    /\ ~env.file
    /\ eout' = [eout EXCEPT !.fatal = "file not found"]
    /\ epc' = "exit"
    /\ UNCHANGED <<cvars, ivars, function_name, gvars, svars, listed, exclude_layers, include_layers,
                   export_empty_layers, env, create_fails, feature_fails,
                   artifacts, ei, art0, passes>>

\* lines 59-72: "kart data ls" ends with a non-zero status
KartFails ==
    /\ epc = "call"
    /\ env.file
    /\ ~env.kart
    /\ eout' = [eout EXCEPT !.fatal = "failed to list layers"]
    /\ epc' = "exit"
    /\ UNCHANGED <<cvars, ivars, function_name, gvars, svars, listed, exclude_layers, include_layers,
                   export_empty_layers, env, create_fails, feature_fails,
                   artifacts, ei, art0, passes>>

\* lines 74-76: the list of names is empty
NoLayers ==
    /\ epc = "call"
    /\ env.file
    /\ env.kart
    /\ listed = <<>>
    /\ eout' = [eout EXCEPT !.fatal = "no layers found"]
    /\ epc' = "exit"
    /\ UNCHANGED <<cvars, ivars, function_name, gvars, svars, listed, exclude_layers, include_layers,
                   export_empty_layers, env, create_fails, feature_fails,
                   artifacts, ei, art0, passes>>

\* lines 84-90: ogr.Open gives nothing; exit(1)
OpenReturnsNone ==
    /\ epc = "call"
    /\ env.file
    /\ env.kart
    /\ listed # <<>>
    /\ ~env.open
    /\ eout' = [eout EXCEPT !.fatal = "failed to open"]
    /\ epc' = "exit"
    /\ UNCHANGED <<cvars, ivars, function_name, gvars, svars, listed, exclude_layers, include_layers,
                   export_empty_layers, env, create_fails, feature_fails,
                   artifacts, ei, art0, passes>>

\* lines 84-87: with ogr.UseExceptions in force ogr.Open raises
OpenRaises ==
    /\ epc = "call"
    /\ env.file
    /\ env.kart
    /\ listed # <<>>
    /\ ~env.open
    /\ epc' = "raised"
    /\ UNCHANGED <<cvars, ivars, function_name, gvars, svars, listed, exclude_layers, include_layers,
                   export_empty_layers, env, create_fails, feature_fails,
                   artifacts, ei, eout, art0, passes>>

\* lines 44-93: every check passes, the layer loop begins
Begin ==
    /\ epc = "call"
    /\ env.file
    /\ env.kart
    /\ listed # <<>>
    /\ env.open
    /\ ei' = 1
    /\ epc' = "loop"
    /\ UNCHANGED <<cvars, ivars, function_name, gvars, svars, listed, exclude_layers, include_layers,
                   export_empty_layers, env, create_fails, feature_fails,
                   artifacts, eout, art0, passes>>

\* lines 95-97 and 165-168: the name is not eligible
SkipLayer ==
    /\ epc = "loop"
    /\ ei <= Len(listed)
    /\ ~IsEligible(layer_name, exclude_layers, include_layers)
    /\ eout' = [eout EXCEPT !.skipped = @ \cup {layer_name}]
    /\ ei' = ei + 1
    /\ UNCHANGED <<cvars, ivars, function_name, gvars, svars, listed, exclude_layers, include_layers,
                   export_empty_layers, env, create_fails, feature_fails,
                   artifacts, epc, art0, passes>>

\* lines 99-102: the container has no layer of that name
LayerNotFound ==
    /\ epc = "loop"
    /\ ei <= Len(listed)
    /\ IsEligible(layer_name, exclude_layers, include_layers)
    /\ GetLayerByName(layers, layer_name) = 0
    /\ eout' = [eout EXCEPT !.not_found = @ \cup {layer_name}]
    /\ ei' = ei + 1
    /\ UNCHANGED <<cvars, ivars, function_name, gvars, svars, listed, exclude_layers, include_layers,
                   export_empty_layers, env, create_fails, feature_fails,
                   artifacts, epc, art0, passes>>

\* lines 104-107: the layer has no feature and empty layers are not exported
SkipEmpty ==
    /\ epc = "loop"
    /\ ei <= Len(listed)
    /\ IsEligible(layer_name, exclude_layers, include_layers)
    /\ GetLayerByName(layers, layer_name) # 0
    /\ Len(layers[GetLayerByName(layers, layer_name)].feats) = 0
    /\ ~export_empty_layers
    /\ eout' = [eout EXCEPT !.empty = @ \cup {layer_name}]
    /\ ei' = ei + 1
    /\ UNCHANGED <<cvars, ivars, function_name, gvars, svars, listed, exclude_layers, include_layers,
                   export_empty_layers, env, create_fails, feature_fails,
                   artifacts, epc, art0, passes>>

\* lines 121-125: the driver is not available; exit(1)
DriverMissing ==
    /\ Selected
    /\ ~env.driver
    /\ eout' = [eout EXCEPT !.exporting = @ \cup {layer_name},
                            !.fatal = "driver not available"]
    /\ epc' = "exit"
    /\ UNCHANGED <<cvars, ivars, function_name, gvars, svars, listed, exclude_layers, include_layers,
                   export_empty_layers, env, create_fails, feature_fails,
                   artifacts, ei, art0, passes>>

\* lines 129-134 and 136-145: the old shapefile is deleted, and
\* CreateDataSource or CreateLayer gives nothing: the layer is left out
CreateReturnsNone ==
    /\ Selected
    /\ env.driver
    /\ layer_name \in create_fails
    /\ artifacts' = [artifacts EXCEPT ![ShapefilePath(layer_name)] = NoArtifact]
    /\ eout' = [eout EXCEPT !.exporting = @ \cup {layer_name},
                            !.create_failed = @ \cup {layer_name}]
    /\ ei' = ei + 1
    /\ UNCHANGED <<cvars, ivars, function_name, gvars, svars, listed, exclude_layers, include_layers,
                   export_empty_layers, env, create_fails, feature_fails,
                   epc, art0, passes>>

\* lines 84 and 129-141: with ogr.UseExceptions in force the failing
\* CreateDataSource or CreateLayer raises, and nothing catches it
CreateRaises ==
    /\ Selected
    /\ env.driver
    /\ layer_name \in create_fails
    /\ artifacts' = [artifacts EXCEPT ![ShapefilePath(layer_name)] = NoArtifact]
    /\ eout' = [eout EXCEPT !.exporting = @ \cup {layer_name}]
    /\ epc' = "raised"
    /\ UNCHANGED <<cvars, ivars, function_name, gvars, svars, listed, exclude_layers, include_layers,
                   export_empty_layers, env, create_fails, feature_fails,
                   ei, art0, passes>>

\* lines 84 and 156-157: with ogr.UseExceptions in force a failing
\* CreateFeature raises at feature k, and nothing catches it
FeatureRaises ==
    /\ Selected
    /\ env.driver
    /\ layer_name \notin create_fails
    /\ layer_name \in feature_fails
    /\ \E k \in 1..Len(layers[GetLayerByName(layers, layer_name)].feats) :
          artifacts' = [artifacts EXCEPT ![ShapefilePath(layer_name)] =
              ShapefileOf(layers[GetLayerByName(layers, layer_name)], k - 1)]
    /\ eout' = [eout EXCEPT !.exporting = @ \cup {layer_name}]
    /\ epc' = "raised"
    /\ UNCHANGED <<cvars, ivars, function_name, gvars, svars, listed, exclude_layers, include_layers,
                   export_empty_layers, env, create_fails, feature_fails,
                   ei, art0, passes>>

\* a variant that does not delete the shapefile found at the path: the
\* features of the layer are added to those it holds
ExportLayerMerging ==
    /\ Selected
    /\ env.driver
    /\ layer_name \notin create_fails
    /\ \/ layer_name \notin feature_fails
       \/ layers[GetLayerByName(layers, layer_name)].feats = <<>>
    /\ artifacts' = [artifacts EXCEPT ![ShapefilePath(layer_name)] =
          LET new == ShapefileOf(layers[GetLayerByName(layers, layer_name)],
                         Len(layers[GetLayerByName(layers, layer_name)].feats))
          IN  IF @ = NoArtifact THEN new
              ELSE [new EXCEPT !.feats = artifacts[ShapefilePath(layer_name)].feats
                                           \o new.feats]]
    /\ eout' = [eout EXCEPT !.exporting = @ \cup {layer_name},
                            !.exported = @ \cup {layer_name}]
    /\ ei' = ei + 1
    /\ UNCHANGED <<cvars, ivars, function_name, gvars, svars, listed, exclude_layers,
                   include_layers, export_empty_layers, env, create_fails,
                   feature_fails, epc, art0, passes>>

\* lines 109-164: the shapefile is replaced by a copy of the layer
ExportLayer ==
    /\ Selected
    /\ env.driver
    /\ layer_name \notin create_fails
    /\ \/ layer_name \notin feature_fails
       \/ layers[GetLayerByName(layers, layer_name)].feats = <<>>
    /\ artifacts' = [artifacts EXCEPT ![ShapefilePath(layer_name)] =
          ShapefileOf(layers[GetLayerByName(layers, layer_name)],
                      Len(layers[GetLayerByName(layers, layer_name)].feats))]
    /\ eout' = [eout EXCEPT !.exporting = @ \cup {layer_name},
                            !.exported = @ \cup {layer_name}]
    /\ ei' = ei + 1
    /\ UNCHANGED <<cvars, ivars, function_name, gvars, svars, listed, exclude_layers, include_layers,
                   export_empty_layers, env, create_fails, feature_fails,
                   epc, art0, passes>>

\* line 170: the loop is over
ExportCompleted ==
    /\ epc = "loop"
    /\ ei > Len(listed)
    /\ eout' = [eout EXCEPT !.completed = TRUE]
    /\ epc' = "done"
    /\ UNCHANGED <<cvars, ivars, function_name, gvars, svars, listed, exclude_layers, include_layers,
                   export_empty_layers, env, create_fails, feature_fails,
                   artifacts, ei, art0, passes>>

\* the container after an edit that removes the last feature of each layer
DropLast(ls) ==
    [i \in 1..Len(ls) |->
        [ls[i] EXCEPT !.feats = IF @ = <<>> THEN @ ELSE SubSeq(@, 1, Len(@) - 1)]]

\* export_working_dir is called again with the same arguments, on the
\* output directory the earlier pass left and on the container as it is
\* then
ExportAgain ==
    /\ epc \in {"done", "exit", "raised"}
    /\ passes < MaxPasses
    /\ passes' = passes + 1
    /\ layers' \in {layers, DropLast(layers)}
    /\ art0' = artifacts
    /\ epc' = "call"
    /\ ei' = 0
    /\ eout' = NoEout
    /\ UNCHANGED <<openable, pc, li, existing_fields, fields_to_convert, fi,
                   cur, out, hist, ends, ivars, function_name, gvars, svars, listed,
                   exclude_layers, include_layers, export_empty_layers, env,
                   create_fails, feature_fails, artifacts>>

NextExport ==
    \/ FileMissing
    \/ KartFails
    \/ NoLayers
    \/ OpenReturnsNone
    \/ OpenRaises
    \/ Begin
    \/ SkipLayer
    \/ LayerNotFound
    \/ SkipEmpty
    \/ DriverMissing
    \/ CreateReturnsNone
    \/ CreateRaises
    \/ FeatureRaises
    \/ ExportLayer
    \/ ExportCompleted
    \/ ExportAgain

SpecExport == InitExport /\ [][NextExport]_vars

----------------------------------------------------------------------------
(* list_shp and import_shp_dir *)

MaxFiles == 3       \* entries of the shapefile directory

ShpExt == <<".", "s", "h", "p">>

\* the file names a directory can hold: a.shp, b.shp, c.shp, a.dbf, a.SHP
FileNames == {<<"a">> \o ShpExt, <<"b">> \o ShpExt, <<"c">> \o ShpExt,
              <<"a", ".", "d", "b", "f">>, <<"a", ".", "S", "H", "P">>}

\* line 22: filename.endswith(".shp")
EndsWithShp(filename) ==
    /\ Len(filename) >= Len(ShpExt)
    /\ SubSeq(filename, Len(filename) - Len(ShpExt) + 1, Len(filename)) = ShpExt

\* line 20: os.path.join(shp_dir, filename)
JoinPath(dir, filename) == <<dir, filename>>

\* lines 19-23: the paths of the entries that end with ".shp", in order
RECURSIVE list_shp(_)
list_shp(es) ==
    IF es = <<>> THEN <<>>
    ELSE (IF EndsWithShp(Head(es)) THEN <<JoinPath("shp_dir", Head(es))>> ELSE <<>>)
         \o list_shp(Tail(es))

KartRepo == "kart_repo"

\* data_import.py line 53 and import_data.py line 52: the command
Argv(module, shp) ==
    IF module = "data_import"
    THEN <<"kart", "import", "--replace-existing", shp>>
    ELSE <<"kart", "import", shp>>

NoIout == [success |-> <<>>, failed |-> <<>>, error |-> <<>>]

Directories ==
    {s \in UNION {[1..n -> FileNames] : n \in 0..MaxFiles} :
        \A i, j \in 1..Len(s) : i # j => s[i] # s[j]}

InitImport ==
    /\ impl \in {"data_import", "import_data"}
    /\ cwd \in {"home", KartRepo}
    /\ cwd0 = cwd
    /\ original_cwd = ""
    /\ entries \in Directories
    /\ host \in [chdir : BOOLEAN, listdir : BOOLEAN]
    /\ tool \in [{JoinPath("shp_dir", f) : f \in Range(entries)}
                    -> {"ok", "nonzero", "raises"}]
    /\ shps = <<>>
    /\ ii = 0
    /\ ipc = "call"
    /\ calls = <<>>
    /\ iout = NoIout
    /\ layers = <<>>
    /\ CoerceNotCalled
    /\ ExportNotCalled
    /\ function_name = ""
    /\ GpkgNotCalled
    /\ InspectNotCalled

shp == shps[ii]

\* line 43: original_cwd = os.getcwd()
GetCwd ==
    /\ ipc = "call"
    /\ original_cwd' = cwd
    /\ ipc' = "chdir"
    /\ UNCHANGED <<cvars, evars, function_name, gvars, svars, impl, cwd, cwd0, entries, host, tool, shps,
                   ii, calls, iout>>

\* line 47: os.chdir(kart_repo)
Chdir ==
    /\ ipc = "chdir"
    /\ host.chdir
    /\ cwd' = KartRepo
    /\ ipc' = "list"
    /\ UNCHANGED <<cvars, evars, function_name, gvars, svars, impl, cwd0, original_cwd, entries, host, tool,
                   shps, ii, calls, iout>>

\* line 47: os.chdir(kart_repo) raises; control passes to the finally block
ChdirRaises ==
    /\ ipc = "chdir"
    /\ ~host.chdir
    /\ ipc' = "finally_raising"
    /\ UNCHANGED <<cvars, evars, function_name, gvars, svars, impl, cwd, cwd0, original_cwd, entries, host,
                   tool, shps, ii, calls, iout>>

\* line 50: list_shp(shp_dir)
ListShp ==
    /\ ipc = "list"
    /\ host.listdir
    /\ shps' = list_shp(entries)
    /\ ii' = 1
    /\ ipc' = "loop"
    /\ UNCHANGED <<cvars, evars, function_name, gvars, svars, impl, cwd, cwd0, original_cwd, entries, host,
                   tool, calls, iout>>

\* lines 21 and 50: os.listdir raises; control passes to the finally block
ListShpRaises ==
    /\ ipc = "list"
    /\ ~host.listdir
    /\ ipc' = "finally_raising"
    /\ UNCHANGED <<cvars, evars, function_name, gvars, svars, impl, cwd, cwd0, original_cwd, entries, host,
                   tool, shps, ii, calls, iout>>

\* lines 52-58: the command ends with status 0
ImportOk ==
    /\ ipc = "loop"
    /\ ii <= Len(shps)
    /\ tool[shp] = "ok"
    /\ calls' = Append(calls, Argv(impl, shp))
    /\ iout' = [iout EXCEPT !.success = Append(@, shp)]
    /\ ii' = ii + 1
    /\ UNCHANGED <<cvars, evars, function_name, gvars, svars, impl, cwd, cwd0, original_cwd, entries, host,
                   tool, shps, ipc>>

\* lines 52-61: the command ends with another status
ImportNonZero ==
    /\ ipc = "loop"
    /\ ii <= Len(shps)
    /\ tool[shp] = "nonzero"
    /\ calls' = Append(calls, Argv(impl, shp))
    /\ iout' = [iout EXCEPT !.failed = Append(@, shp)]
    /\ ii' = ii + 1
    /\ UNCHANGED <<cvars, evars, function_name, gvars, svars, impl, cwd, cwd0, original_cwd, entries, host,
                   tool, shps, ipc>>

\* a variant without the try of line 51
ImportRaisesUncaught ==
    /\ ipc = "loop"
    /\ ii <= Len(shps)
    /\ tool[shp] = "raises"
    /\ calls' = Append(calls, Argv(impl, shp))
    /\ ipc' = "finally_raising"
    /\ UNCHANGED <<cvars, evars, function_name, gvars, svars, impl, cwd, cwd0, original_cwd, entries, host,
                   tool, shps, ii, iout>>

\* lines 51-63: subprocess.run raises, and the except prints the error
ImportRaises ==
    /\ ipc = "loop"
    /\ ii <= Len(shps)
    /\ tool[shp] = "raises"
    /\ calls' = Append(calls, Argv(impl, shp))
    /\ iout' = [iout EXCEPT !.error = Append(@, shp)]
    /\ ii' = ii + 1
    /\ UNCHANGED <<cvars, evars, function_name, gvars, svars, impl, cwd, cwd0, original_cwd, entries, host,
                   tool, shps, ipc>>

\* line 50: the list is exhausted
LoopDone ==
    /\ ipc = "loop"
    /\ ii > Len(shps)
    /\ ipc' = "finally"
    /\ UNCHANGED <<cvars, evars, function_name, gvars, svars, impl, cwd, cwd0, original_cwd, entries, host,
                   tool, shps, ii, calls, iout>>

\* a variant that restores the directory only after the loop
FinallyOnlyAfterLoop ==
    /\ ipc \in {"finally", "finally_raising"}
    /\ cwd' = IF ipc = "finally" THEN original_cwd ELSE cwd
    /\ ipc' = IF ipc = "finally" THEN "returned" ELSE "raised"
    /\ UNCHANGED <<cvars, evars, function_name, gvars, svars, impl, cwd0, original_cwd, entries, host, tool,
                   shps, ii, calls, iout>>

\* lines 64-66: os.chdir(original_cwd), then the return or the exception
Finally ==
    /\ ipc \in {"finally", "finally_raising"}
    /\ cwd' = original_cwd
    /\ ipc' = IF ipc = "finally" THEN "returned" ELSE "raised"
    /\ UNCHANGED <<cvars, evars, function_name, gvars, svars, impl, cwd0, original_cwd, entries, host, tool,
                   shps, ii, calls, iout>>

NextImport ==
    \/ GetCwd
    \/ Chdir
    \/ ChdirRaises
    \/ ListShp
    \/ ListShpRaises
    \/ ImportOk
    \/ ImportNonZero
    \/ ImportRaises
    \/ LoopDone
    \/ Finally

SpecImport == InitImport /\ [][NextImport]_vars

----------------------------------------------------------------------------
(* The layer lists of aux_data/gpkg_layers.py, which gpkg_to_shps.py holds  *)
(* as well (lines 34-40), as sets of strings.                              *)

\* "layer_styles", "qgis_projects"
EXCLUDE_LAYERS ==
    {<<"l", "a", "y", "e", "r", "_", "s", "t", "y", "l", "e", "s">>,
     <<"q", "g", "i", "s", "_", "p", "r", "o", "j", "e", "c", "t", "s">>}

\* the 18 standardized vector layers, "ReseneUzemi_p" to "Zpochybneno_p"
INCLUDE_LAYERS ==
    {<<"R", "e", "s", "e", "n", "e", "U", "z", "e", "m", "i", "_", "p">>,
     <<"U", "z", "e", "m", "i", "P", "r", "v", "k", "y", "R", "P", "_",
       "p">>,
     <<"Z", "a", "s", "t", "a", "v", "e", "n", "e", "U", "z", "e", "m",
       "i", "_", "p">>,
     <<"Z", "a", "s", "t", "a", "v", "i", "t", "e", "l", "n", "e", "U",
       "z", "e", "m", "i", "_", "p">>,
     <<"P", "l", "o", "c", "h", "y", "R", "Z", "V", "_", "p">>,
     <<"U", "z", "e", "m", "n", "i", "R", "e", "z", "e", "r", "v", "y",
       "_", "p">>,
     <<"K", "o", "r", "i", "d", "o", "r", "y", "P", "_", "p">>,
     <<"K", "o", "r", "i", "d", "o", "r", "y", "N", "_", "p">>,
     <<"L", "o", "k", "a", "l", "i", "t", "y", "_", "p">>,
     <<"P", "l", "o", "c", "h", "y", "Z", "m", "e", "n", "_", "p">>,
     <<"P", "l", "o", "c", "h", "y", "P", "o", "d", "m", "_", "p">>,
     <<"V", "p", "s", "V", "p", "o", "A", "s", "_", "p">>,
     <<"V", "p", "s", "V", "p", "o", "A", "s", "_", "l">>,
     <<"U", "S", "E", "S", "_", "p">>,
     <<"S", "y", "s", "t", "e", "m", "S", "i", "d", "e", "l", "n", "i",
       "Z", "e", "l", "e", "n", "e", "_", "p">>,
     <<"S", "y", "s", "t", "e", "m", "V", "e", "r", "P", "r", "o", "s",
       "t", "r", "_", "p">>,
     <<"P", "l", "o", "c", "h", "a", "V", "I", "_", "p">>,
     <<"Z", "p", "o", "c", "h", "y", "b", "n", "e", "n", "o", "_", "p">>}

USES_p == <<"U", "S", "E", "S", "_", "p">>
layer_styles == <<"l", "a", "y", "e", "r", "_", "s", "t", "y", "l", "e", "s">>

----------------------------------------------------------------------------
(* run.py: the function map and execute_function *)

\* lines 29-90: the keys of function_map
FunctionMap ==
    {"export_working_dir", "shp_overview", "init_with_import",
     "import_shp_dir", "init_save", "next_save", "raster_to_24bit",
     "check_24bit_depth"}

\* the names execute_function can be given: those of the map, and that of
\* the conversion, which the map does not hold
FunctionNames == FunctionMap \cup {"int64_to_int32"}

\* the containers, lists of tracked names, hosts and output directories of
\* a run; the lists and the flag are those of function_map
RunExportInputs == ContainerInputs \cup FaultInputs \cup HostInputs

\* the container before any conversion: the first field of every layer is
\* still an Integer64 field
Uncoerced(ls) ==
    [i \in 1..Len(ls) |-> [ls[i] EXCEPT !.fields[1].type = OFTInteger64]]

\* the state before run.py calls execute_function: either there are layers
\* to export, or there are shapefiles to import
InitRun ==
    /\ function_name = ""
    /\ GpkgNotCalled
    /\ InspectNotCalled
    /\ \/ /\ \E x \in RunExportInputs :
                /\ layers \in {x.layers, Uncoerced(x.layers)}
                /\ listed = x.listed
                /\ env = x.env
                /\ create_fails = x.create_fails
                /\ feature_fails = x.feature_fails
                /\ artifacts = x.artifacts
          /\ exclude_layers = {}
          /\ include_layers = {}
          /\ export_empty_layers = FALSE
          /\ art0 = artifacts
          /\ passes = 0
          /\ epc = "none"
          /\ ei = 0
          /\ eout = NoEout
          /\ ImportNotCalled
       \/ /\ impl = "data_import"
          /\ cwd \in {"home", KartRepo}
          /\ cwd0 = cwd
          /\ original_cwd = ""
          /\ entries \in Directories
          /\ host \in [chdir : BOOLEAN, listdir : BOOLEAN]
          /\ tool \in [{JoinPath("shp_dir", f) : f \in Range(entries)}
                          -> {"ok", "nonzero", "raises"}]
          /\ shps = <<>>
          /\ ii = 0
          /\ ipc = "none"
          /\ calls = <<>>
          /\ iout = NoIout
          /\ layers = <<>>
          /\ ExportNotCalled
    /\ CoerceNotCalled

\* lines 94-100: execute_function(function_name): the function of the map
\* is called with its parameters (lines 33-39 and 62-63); a name the map
\* does not hold is reported and nothing is called
ExecuteFunction ==
    /\ function_name = ""
    /\ \E f \in FunctionNames :
          /\ function_name' = f
          /\ IF f \in FunctionMap /\ f = "export_working_dir"
             THEN /\ exclude_layers' = EXCLUDE_LAYERS
                  /\ include_layers' = INCLUDE_LAYERS
                  /\ export_empty_layers' = FALSE
                  /\ epc' = "call"
                  /\ passes' = 1
                  /\ eout' = NoEout
                  /\ art0' = artifacts
                  /\ UNCHANGED <<ipc, iout, cwd0>>
             ELSE IF f \in FunctionMap /\ f = "import_shp_dir"
             THEN /\ ipc' = "call"
                  /\ iout' = NoIout
                  /\ cwd0' = cwd
                  /\ UNCHANGED <<exclude_layers, include_layers,
                                 export_empty_layers, epc, passes, eout, art0>>
             ELSE UNCHANGED <<exclude_layers, include_layers,
                              export_empty_layers, epc, passes, eout, art0,
                              ipc, iout, cwd0>>
    /\ UNCHANGED <<cvars, listed, env, create_fails, feature_fails,
                   artifacts, ei, impl, cwd, original_cwd, entries, host,
                   tool, shps, ii, calls, gvars, svars>>

\* a run of run.py: no entry of function_map reaches int64_to_int32, so its
\* steps are not steps of a run
NextRun ==
    \/ ExecuteFunction
    \/ NextExport
    \/ NextImport

SpecRun == InitRun /\ [][NextRun]_vars

----------------------------------------------------------------------------
(* pyqgis/gpkg_to_shps.py: gpkg_to_shps *)

\* line 56: layer.GetName().startswith(('X', 'x'))
StartsWithXx(name) == Len(name) >= 1 /\ name[1] \in {"X", "x"}

\* lines 55-58: the names of the layers of the container that are in
\* INCLUDE_LAYERS or start with "X" or "x", and are not in EXCLUDE_LAYERS,
\* in the order of the container
RECURSIVE LayersToExport(_)
LayersToExport(ls) ==
    IF ls = <<>> THEN <<>>
    ELSE (IF /\ (Head(ls).name \in INCLUDE_LAYERS \/ StartsWithXx(Head(ls).name))
             /\ Head(ls).name \notin EXCLUDE_LAYERS
          THEN <<Head(ls).name>> ELSE <<>>)
         \o LayersToExport(Tail(ls))

\* lines 98-107: the features that have a geometry, in order
RECURSIVE WithGeometry(_)
WithGeometry(feats) ==
    IF feats = <<>> THEN <<>>
    ELSE (IF Head(feats).geom # "none" THEN <<Head(feats)>> ELSE <<>>)
         \o WithGeometry(Tail(feats))

\* lines 80-110: the shapefile written from the layer; when drop > 0 the
\* CreateFeature of that feature fails, its status is not looked at and the
\* loop goes on
GpkgShapefileOf(layer, drop) ==
    LET kept == WithGeometry(layer.feats)
        written == [k \in 1..(Len(kept) - (IF drop > 0 THEN 1 ELSE 0)) |->
                       IF drop > 0 /\ k >= drop THEN kept[k + 1] ELSE kept[k]]
    IN  [layer |-> layer.name,
         encoding |-> "encoding",
         fields |-> CopyFields(layer.fields),
         feats |-> [k \in 1..Len(written) |->
                      CopyFeatureTo(layer.fields, written[k])]]

NoGout == [processing |-> {}, create_failed |-> {}, exported |-> {},
           no_geometry |-> {}, error |-> "", completed |-> FALSE]

(* Initial states of gpkg_to_shps *)

GpkgLayerNames == {Xa, xa, Rp, USES_p, layer_styles}

GpkgPaths == {ShapefilePath(n) : n \in GpkgLayerNames}

\* the layer whose first feature has no geometry
WithoutGeometry(layer) == [layer EXCEPT !.feats[1].geom = "none"]

\* what the container can hold under one name
GpkgLayerChoices(name) ==
    {<<>>} \cup {<<LayerWith(name, ShortSchema, n)>> : n \in 0..MaxFeat}

GpkgContainers ==
    {a \o b \o c \o d \o e :
        a \in GpkgLayerChoices(Xa)
               \cup {<<WithoutGeometry(LayerWith(Xa, ShortSchema, MaxFeat))>>},
        b \in GpkgLayerChoices(xa), c \in GpkgLayerChoices(Rp),
        d \in GpkgLayerChoices(USES_p), e \in GpkgLayerChoices(layer_styles)}

InitGpkg ==
    /\ layers \in GpkgContainers
    /\ env \in {h \in [file : BOOLEAN, kart : BOOLEAN, open : BOOLEAN,
                        driver : BOOLEAN] : h.file /\ h.kart}
    /\ create_fails \in {{}, {Xa}, {xa}}
    /\ feature_fails \in {{}, {Xa}}
    /\ artifacts \in {[q \in GpkgPaths |-> NoArtifact],
                       [q \in GpkgPaths |-> StaleShapefile(
                           CHOOSE n \in GpkgLayerNames : ShapefilePath(n) = q)]}
    /\ art0 = artifacts
    /\ layers_to_export = <<>>
    /\ gpc = "call"
    /\ gi = 0
    /\ gout = NoGout
    /\ listed = <<>>
    /\ exclude_layers = {}
    /\ include_layers = {}
    /\ export_empty_layers = FALSE
    /\ passes = 0
    /\ epc = "none"
    /\ ei = 0
    /\ eout = <<>>
    /\ CoerceNotCalled
    /\ ImportNotCalled
    /\ function_name = ""
    /\ InspectNotCalled

\* layer_name of lines 66-67
gpkg_layer_name == layers_to_export[gi]

gpkg_layer == layers[GetLayerByName(layers, gpkg_layer_name)]

\* lines 46-49: ogr.Open gives nothing, the exception is raised
GpkgOpenFails ==
    /\ gpc = "call"
    /\ ~env.open
    /\ gout' = [gout EXCEPT !.error = "failed to open"]
    /\ gpc' = "raised"
    /\ UNCHANGED <<cvars, evars, ivars, function_name, svars, layers_to_export, gi>>

\* lines 46-61: the container is open, the layers are filtered and the
\* transaction begins
GpkgBegin ==
    /\ gpc = "call"
    /\ env.open
    /\ layers_to_export' = LayersToExport(layers)
    /\ gi' = 1
    /\ gpc' = "loop"
    /\ UNCHANGED <<cvars, evars, ivars, function_name, svars, gout>>

\* lines 73-80 and 119-123: GetDriverByName gives None, the call of a method
\* on it raises, the transaction is rolled back and the exception raised
GpkgDriverMissing ==
    /\ gpc = "loop"
    /\ gi <= Len(layers_to_export)
    /\ ~env.driver
    /\ gout' = [gout EXCEPT !.processing = @ \cup {gpkg_layer_name},
                            !.error = "transaction failed"]
    /\ gpc' = "raised"
    /\ UNCHANGED <<cvars, evars, ivars, function_name, svars, layers_to_export, gi>>

\* lines 76-89: the old shapefile is deleted, and CreateDataSource or
\* CreateLayer gives None: the error is logged and the loop goes on
GpkgCreateReturnsNone ==
    /\ gpc = "loop"
    /\ gi <= Len(layers_to_export)
    /\ env.driver
    /\ gpkg_layer_name \in create_fails
    /\ artifacts' = [artifacts EXCEPT ![ShapefilePath(gpkg_layer_name)] =
                         NoArtifact]
    /\ gout' = [gout EXCEPT !.processing = @ \cup {gpkg_layer_name},
                            !.create_failed = @ \cup {gpkg_layer_name}]
    /\ gi' = gi + 1
    /\ UNCHANGED <<cvars, ivars, function_name, svars, listed, exclude_layers,
                   include_layers, export_empty_layers, env, create_fails,
                   feature_fails, epc, ei, eout, art0, passes,
                   layers_to_export, gpc>>

\* lines 66-114: the shapefile is replaced by a copy of the layer
GpkgExportLayer ==
    /\ gpc = "loop"
    /\ gi <= Len(layers_to_export)
    /\ env.driver
    /\ gpkg_layer_name \notin create_fails
    /\ \E drop \in (IF gpkg_layer_name \in feature_fails
                         /\ WithGeometry(gpkg_layer.feats) # <<>>
                      THEN 1..Len(WithGeometry(gpkg_layer.feats)) ELSE {0}) :
          artifacts' = [artifacts EXCEPT ![ShapefilePath(gpkg_layer_name)] =
                           GpkgShapefileOf(gpkg_layer, drop)]
    /\ gout' = [gout EXCEPT
                  !.processing = @ \cup {gpkg_layer_name},
                  !.exported = @ \cup {gpkg_layer_name},
                  !.no_geometry = @ \cup
                      (IF Len(WithGeometry(gpkg_layer.feats)) < Len(gpkg_layer.feats)
                       THEN {gpkg_layer_name} ELSE {})]
    /\ gi' = gi + 1
    /\ UNCHANGED <<cvars, ivars, function_name, svars, listed, exclude_layers,
                   include_layers, export_empty_layers, env, create_fails,
                   feature_fails, epc, ei, eout, art0, passes,
                   layers_to_export, gpc>>

\* lines 116-136: the transaction is committed and the end is logged
GpkgCompleted ==
    /\ gpc = "loop"
    /\ gi > Len(layers_to_export)
    /\ gout' = [gout EXCEPT !.completed = TRUE]
    /\ gpc' = "done"
    /\ UNCHANGED <<cvars, evars, ivars, function_name, svars, layers_to_export, gi>>

NextGpkg ==
    \/ GpkgOpenFails
    \/ GpkgBegin
    \/ GpkgDriverMissing
    \/ GpkgCreateReturnsNone
    \/ GpkgExportLayer
    \/ GpkgCompleted

SpecGpkg == InitGpkg /\ [][NextGpkg]_vars

----------------------------------------------------------------------------
(* controllers/data/inspect_data.py: get_cpg_encoding and shp_overview *)

\* the characters str.strip() takes off
Whitespace == {" ", "\t", "\n", "\r"}

\* the value returned at line 33
NotSpecified == <<"N", "o", "t", " ", "s", "p", "e", "c", "i", "f", "i", "e", "d">>

\* line 29: f.read().strip(): the whitespace is taken off at the left, then
\* at the right
strip(s) ==
    LET RECURSIVE LStrip(_)
        LStrip(t) ==
            IF t # <<>> /\ Head(t) \in Whitespace THEN LStrip(Tail(t)) ELSE t
        RECURSIVE RStrip(_)
        RStrip(t) ==
            IF t # <<>> /\ t[Len(t)] \in Whitespace
            THEN RStrip(SubSeq(t, 1, Len(t) - 1)) ELSE t
    IN  RStrip(LStrip(s))

\* the position in the directory of the file of that name; 0 when there is
\* none
FileAt(dir, name) ==
    IF \E i \in 1..Len(dir) : dir[i].name = name
    THEN CHOOSE i \in 1..Len(dir) : dir[i].name = name
    ELSE 0

\* a variant that catches the missing file only
get_cpg_encoding_missing_only(dir, cpg_file) ==
    IF FileAt(dir, cpg_file) = 0
    THEN [raises |-> FALSE, value |-> NotSpecified]
    ELSE IF ~dir[FileAt(dir, cpg_file)].readable
    THEN [raises |-> TRUE, value |-> <<>>]
    ELSE [raises |-> FALSE, value |-> strip(dir[FileAt(dir, cpg_file)].content)]

\* lines 8-33: the content of the file, stripped; when open or read raises
\* (no such file, no permission, bytes that do not decode) the exception
\* is caught and "Not specified" returned
get_cpg_encoding(dir, cpg_file) ==
    IF FileAt(dir, cpg_file) = 0 \/ ~dir[FileAt(dir, cpg_file)].readable
    THEN [raises |-> FALSE, value |-> NotSpecified]
    ELSE [raises |-> FALSE, value |-> strip(dir[FileAt(dir, cpg_file)].content)]

\* line 76: os.path.splitext(filepath)[0] + ".cpg", for a name ending in
\* ".shp"
cpg_filename(filename) ==
    SubSeq(filename, 1, Len(filename) - Len(ShpExt)) \o <<".", "c", "p", "g">>

\* the step of lines 58-89 that raises for the file, "" when none does:
\* ogr.Open, srs.AutoIdentifyEPSG (called when the layer has a spatial
\* reference), or the reading of a field definition (when there is a field)
RaisesAt(dir, f) ==
    IF f.fault = "open_raises" THEN "open"
    ELSE IF f.fault = "open_none" THEN ""
    ELSE IF f.fault = "srs_raises" /\ f.srs # "none" THEN "srs"
    ELSE IF get_cpg_encoding(dir, cpg_filename(f.name)).raises THEN "cpg"
    ELSE IF f.fault = "field_raises" /\ f.fields # <<>> THEN "field"
    ELSE ""

\* lines 60, 85-90 and 93: what is printed for the file when it cannot be
\* opened ("failed"), for its n fields ("fields"), and when a step raises
\* ("error")
Line(f, kind, n) ==
    [file |-> f.name, kind |-> kind, epsg |-> "", encoding |-> <<>>,
     count |-> n]

\* lines 66-82: the name, the EPSG code ("Unknown" without spatial
\* reference or without authority code), the encoding and the feature count
Overview(dir, f) ==
    [file |-> f.name, kind |-> "overview",
     epsg |-> IF f.srs \in {"none", "unidentified"} THEN "Unknown" ELSE f.srs,
     encoding |-> get_cpg_encoding(dir, cpg_filename(f.name)).value,
     count |-> f.nfeat]

(* Initial states of shp_overview *)

\* what a .cpg file can hold
CpgContents ==
    LET Utf8 == <<"U", "T", "F", "-", "8">>
    IN  {<<>>, Utf8, <<" ">> \o Utf8 \o <<"\n">>, Utf8 \o <<"\r", "\n">>,
         <<"\t", "\n">>, NotSpecified, NotSpecified \o <<"\n">>}

\* the shapefile stem.shp: how its inspection fails, its spatial reference,
\* its fields and its number of features
Shapefile(stem, fault, srs, schema, n) ==
    [name |-> <<stem>> \o ShpExt, fault |-> fault, srs |-> srs,
     fields |-> schema, nfeat |-> n, readable |-> TRUE, content |-> <<>>]

\* the sidecar stem.cpg: whether it can be read, and what it holds
Sidecar(stem, readable, content) ==
    [name |-> cpg_filename(<<stem>> \o ShpExt), fault |-> "ok",
     srs |-> "none", fields |-> <<>>, nfeat |-> 0, readable |-> readable,
     content |-> content]

\* two shapefiles with every fault and a sidecar, in every order; and one
\* shapefile without fault, with no sidecar or with every sidecar
DataDirectories ==
    LET Faults == {"ok", "open_none", "open_raises", "srs_raises",
                   "field_raises"}
    IN  UNION {ListsOf({Shapefile("a", fa, "5514", ShortSchema, 1),
                        Shapefile("b", fb, "5514", ShortSchema, 1),
                        Sidecar("a", TRUE, <<"U", "T", "F", "-", "8">>)}) :
                  fa \in Faults, fb \in Faults}
        \cup
        UNION {{<<f>>} \cup UNION {{<<f, c>>, <<c, f>>} :
                    c \in {Sidecar("a", r, t) : r \in BOOLEAN, t \in CpgContents}} :
            f \in {Shapefile("a", "ok", srs, schema, n) :
                      srs \in {"none", "unidentified", "5514"},
                      schema \in {<<>>, ShortSchema}, n \in 0..MaxFeat}}

InitInspect ==
    /\ data_dir \in DataDirectories
    /\ dir_ok \in BOOLEAN
    /\ spc = "call"
    /\ si = 0
    /\ sout = <<>>
    /\ layers = <<>>
    /\ CoerceNotCalled
    /\ ExportNotCalled
    /\ ImportNotCalled
    /\ function_name = ""
    /\ GpkgNotCalled

\* the file of the current iteration
file == data_dir[si]

\* line 54: os.listdir(data_dir) gives the names
ListDir ==
    /\ spc = "call"
    /\ dir_ok
    /\ spc' = "loop"
    /\ si' = 1
    /\ UNCHANGED <<cvars, evars, ivars, function_name, gvars, data_dir,
                   dir_ok, sout>>

\* line 54: os.listdir(data_dir) raises, outside every try
ListDirRaises ==
    /\ spc = "call"
    /\ ~dir_ok
    /\ spc' = "raised"
    /\ UNCHANGED <<cvars, evars, ivars, function_name, gvars, data_dir,
                   dir_ok, si, sout>>

\* line 55: the name does not end in ".shp"
NotShp ==
    /\ spc = "loop"
    /\ si <= Len(data_dir)
    /\ ~EndsWithShp(file.name)
    /\ si' = si + 1
    /\ UNCHANGED <<cvars, evars, ivars, function_name, gvars, data_dir,
                   dir_ok, spc, sout>>

\* lines 58-61: ogr.Open gives None
OpenFailed ==
    /\ spc = "loop"
    /\ si <= Len(data_dir)
    /\ EndsWithShp(file.name)
    /\ file.fault = "open_none"
    /\ sout' = Append(sout, Line(file, "failed", 0))
    /\ si' = si + 1
    /\ UNCHANGED <<cvars, evars, ivars, function_name, gvars, data_dir,
                   dir_ok, spc>>

\* a variant without the try of line 57
InspectRaisesUncaught ==
    /\ spc = "loop"
    /\ si <= Len(data_dir)
    /\ EndsWithShp(file.name)
    /\ RaisesAt(data_dir, file) # ""
    /\ sout' = IF RaisesAt(data_dir, file) = "field"
               THEN Append(sout, Overview(data_dir, file)) ELSE sout
    /\ spc' = "raised"
    /\ UNCHANGED <<cvars, evars, ivars, function_name, gvars, data_dir,
                   dir_ok, si>>

\* lines 57-93: a step raises and the exception is caught at line 92; the
\* lines 79-82 are printed already when it is the field loop that raises
InspectRaises ==
    /\ spc = "loop"
    /\ si <= Len(data_dir)
    /\ EndsWithShp(file.name)
    /\ RaisesAt(data_dir, file) # ""
    /\ sout' = (IF RaisesAt(data_dir, file) = "field"
                THEN Append(sout, Overview(data_dir, file)) ELSE sout)
               \o <<Line(file, "error", 0)>>
    /\ si' = si + 1
    /\ UNCHANGED <<cvars, evars, ivars, function_name, gvars, data_dir,
                   dir_ok, spc>>

\* lines 58-90: the overview of the file is printed, then its fields
Inspect ==
    /\ spc = "loop"
    /\ si <= Len(data_dir)
    /\ EndsWithShp(file.name)
    /\ file.fault # "open_none"
    /\ RaisesAt(data_dir, file) = ""
    /\ sout' = sout \o <<Overview(data_dir, file),
                         Line(file, "fields", Len(file.fields))>>
    /\ si' = si + 1
    /\ UNCHANGED <<cvars, evars, ivars, function_name, gvars, data_dir,
                   dir_ok, spc>>

\* the loop of line 54 is over
InspectDone ==
    /\ spc = "loop"
    /\ si > Len(data_dir)
    /\ spc' = "done"
    /\ UNCHANGED <<cvars, evars, ivars, function_name, gvars, data_dir,
                   dir_ok, si, sout>>

NextInspect ==
    \/ ListDir
    \/ ListDirRaises
    \/ NotShp
    \/ OpenFailed
    \/ InspectRaises
    \/ Inspect
    \/ InspectDone

SpecInspect == InitInspect /\ [][NextInspect]_vars

----------------------------------------------------------------------------
(* Properties of int64_to_int32 *)

\* the container when the current invocation began
AtStart == hist[Len(hist)]

\* the pass ran over every layer and printed its last line
Completed == pc = "returned" /\ out.complete

LayerIds == 1..Len(layers)

FeatIds(l) == 1..Len(layers[l].feats)

\* the Integer64 fields of layer l when the invocation began
Int64AtStart(l) ==
    {f \in NamesOf(AtStart[l].fields) : TypeOf(AtStart[l].fields, f) = OFTInteger64}

\* those of them whose work name was free when the invocation began
ConvertedFields(l) ==
    {f \in Int64AtStart(l) : WorkName(f) \notin NamesOf(AtStart[l].fields)}

\* v lies in [-2147483648, 2147483647]
FitsInt32(v) == v[1].q \in {-1, 0}

\* C1: after a completed pass every converted field holds, in every feature,
\* the original value when it is None or lies in [-2^31, 2^31 - 1] and None
\* otherwise; 2147483647 and -2147483648 are kept, 2147483648 and
\* -2147483649 are dropped; a warning is printed for exactly the dropped
\* values and the pass still runs to its end.
C1_OverflowPolicy ==
    Completed =>
        \A l \in LayerIds : \A f \in ConvertedFields(l) : \A k \in FeatIds(l) :
            LET v == AtStart[l].feats[k].attrs[f]
                w == layers[l].feats[k].attrs[f]
            IN  /\ v = None => w = None
                /\ (v # None /\ FitsInt32(v)) => w = v
                /\ (v # None /\ ~FitsInt32(v)) => w = None
                /\ v = I(0, R31Max) => w = I(0, R31Max)
                /\ v = I(-1, 0) => w = I(-1, 0)
                /\ v = I(1, 0) => w = None
                /\ v = I(-2, R31Max) => w = None
                /\ (<<l, f, k>> \in out.warned) <=> (v # None /\ ~FitsInt32(v))

C1_Witness ==
    /\ Completed
    /\ \E l \in LayerIds : \E f, g \in ConvertedFields(l) : \E k \in FeatIds(l) :
          /\ AtStart[l].feats[k].attrs[f] = I(1, 0)
          /\ layers[l].feats[k].attrs[f] = None
          /\ AtStart[l].feats[k].attrs[g] = I(0, R31Max)
          /\ layers[l].feats[k].attrs[g] = I(0, R31Max)

C3_Idempotent ==
    (Len(hist) >= 2 /\ ends[Len(ends)] = "returned" /\ pc = "returned")
        => layers = AtStart

C3_Witness ==
    /\ Len(hist) >= 2
    /\ ends[1] = "returned"
    /\ Completed
    /\ hist[1] # hist[2]
    /\ layers = hist[2]
    /\ \E l \in 1..Len(hist[1]) : \E k \in 1..Len(hist[1][l].feats) :
          \E f \in DOMAIN hist[1][l].feats[k].attrs :
              /\ hist[1][l].feats[k].attrs[f] = I(1, 0)
              /\ hist[2][l].feats[k].attrs[f] = None

\* C9: when the container cannot be opened no layer is processed, nothing
\* in the container changes and the completion line is not printed.
C9_OpenFailedNoMutation ==
    ~openable =>
        /\ layers = hist[1]
        /\ pc \in {"call", "returned"}
        /\ out.processing = {}
        /\ out.converting = {}
        /\ ~out.complete
        /\ pc = "returned" => out.open_failed

C9_Witness ==
    /\ ~openable
    /\ pc = "returned"
    /\ \E l \in LayerIds : ConvertedFields(l) # {}

\* C10: when the pass fails partway the container equals its state before
\* the invocation.
C10_RolledBack ==
    pc = "raised" => layers = AtStart

\* the container when the invocation before the current one began
PrevStart == hist[Len(hist) - 1]

\* the Integer64 fields of layer l, with a free work name, when the
\* invocation before the current one began
ConvertibleBefore(l) ==
    {f \in NamesOf(PrevStart[l].fields) :
        /\ TypeOf(PrevStart[l].fields, f) = OFTInteger64
        /\ WorkName(f) \notin NamesOf(PrevStart[l].fields)}

\* C11: when an invocation stopped partway and the next invocation runs to
\* its end, every field the first one had to convert is a single Integer
\* field under its own name holding the in-range original values, with no
\* Integer64 field and no "_int32" field left over: the state one
\* uninterrupted pass gives.
C11_SafeRerun ==
    (Len(hist) >= 2 /\ ends[Len(ends)] = "raised" /\ Completed) =>
        \A l \in LayerIds : \A f \in ConvertibleBefore(l) :
            /\ f \in NamesOf(layers[l].fields)
            /\ TypeOf(layers[l].fields, f) = OFTInteger
            /\ WorkName(f) \notin NamesOf(layers[l].fields)
            /\ \A k \in FeatIds(l) :
                  LET v == PrevStart[l].feats[k].attrs[f]
                  IN  layers[l].feats[k].attrs[f] =
                          (IF v # None /\ FitsInt32(v) THEN v ELSE None)

\* the Integer64 fields of layer l whose work name was taken when the
\* invocation began
SkippedFields(l) == Int64AtStart(l) \ ConvertedFields(l)

\* field f of layer l has the type and, in every feature, the value it had
\* when the invocation began
FieldUnchanged(l, f) ==
    /\ f \in NamesOf(layers[l].fields)
    /\ TypeOf(layers[l].fields, f) = TypeOf(AtStart[l].fields, f)
    /\ \A k \in FeatIds(l) :
          layers[l].feats[k].attrs[f] = AtStart[l].feats[k].attrs[f]

\* C23 as claimed: for a field f whose work name f + "_int32" is in the
\* layer when the pass begins, no conversion of f is started, f and the
\* field f + "_int32" keep their type and values, and a completed pass has
\* reported the skip, gone through every layer and converted every other
\* Integer64 field.
C23_SkipExisting ==
    pc # "none" =>
        \A l \in LayerIds : \A f \in SkippedFields(l) :
            /\ <<l, f>> \notin out.converting
            /\ FieldUnchanged(l, f)
            /\ FieldUnchanged(l, WorkName(f))
            /\ Completed =>
                  /\ <<l, f>> \in out.skipped
                  /\ out.processing = LayerIds
                  /\ \A m \in LayerIds : \A g \in ConvertedFields(m) :
                        TypeOf(layers[m].fields, g) = OFTInteger

\* C23 as amended: the same, the field f + "_int32" keeping its type and
\* values when it is not itself an Integer64 field.
C23_SkipExistingOther ==
    pc # "none" =>
        \A l \in LayerIds : \A f \in SkippedFields(l) :
            /\ <<l, f>> \notin out.converting
            /\ FieldUnchanged(l, f)
            /\ WorkName(f) \notin Int64AtStart(l) => FieldUnchanged(l, WorkName(f))
            /\ Completed =>
                  /\ <<l, f>> \in out.skipped
                  /\ out.processing = LayerIds
                  /\ \A m \in LayerIds : \A g \in ConvertedFields(m) :
                        TypeOf(layers[m].fields, g) = OFTInteger

C23_Witness ==
    /\ Completed
    /\ Len(layers) = 2
    /\ \E f \in SkippedFields(1) :
          /\ <<1, f>> \in out.skipped
          /\ TypeOf(layers[1].fields, WorkName(f)) = OFTInteger
          /\ layers[1].feats[1].attrs[f] = I(0, 5)
    /\ \E g \in ConvertedFields(2) : <<2, g>> \in out.converting

\* the pairs (f, f + "_int32") of layer l that the invocation created
TransientPairs ==
    {<<l, f>> \in LayerIds \X UNION {NamesOf(layers[l].fields) : l \in LayerIds} :
        /\ f \in NamesOf(layers[l].fields)
        /\ WorkName(f) \in NamesOf(layers[l].fields)
        /\ WorkName(f) \notin NamesOf(AtStart[l].fields)}

\* C24: in every state of an invocation the field names of each layer are
\* pairwise distinct, and at most one pair (f, f + "_int32") created by the
\* invocation exists.
C24_UniqueNames ==
    pc # "none" =>
        /\ \A l \in LayerIds :
              \A i, j \in 1..Len(layers[l].fields) :
                  i # j => layers[l].fields[i].name # layers[l].fields[j].name
        /\ Cardinality(TransientPairs) <= 1

C24_Witness ==
    /\ pc = "delete"
    /\ Cardinality(TransientPairs) = 1
    /\ \E f \in NamesOf(AtStart[li].fields) :
          /\ {f, WorkName(f)} \subseteq Int64AtStart(li)
          /\ {f, WorkName(f), WorkName(WorkName(f))}
                 \subseteq NamesOf(layers[li].fields)

\* C25: after a completed pass the field names of each layer, in order, are
\* those the layer had before the pass, and no Integer64 field is left.
C25_SchemaShape ==
    Completed =>
        \A l \in LayerIds :
            /\ FieldNames(layers[l].fields) = FieldNames(AtStart[l].fields)
            /\ \A i \in 1..Len(layers[l].fields) :
                  layers[l].fields[i].type = OFTInteger

\* C26: in every state of an invocation the layers are those the container
\* had when it began, each with as many features and the same geometries;
\* a field that was not an Integer64 field keeps its type and values, and a
\* layer without Integer64 field is as it was.
C26_Frame ==
    pc # "none" =>
        /\ Len(layers) = Len(AtStart)
        /\ \A l \in LayerIds :
              /\ layers[l].name = AtStart[l].name
              /\ Len(layers[l].feats) = Len(AtStart[l].feats)
              /\ \A k \in FeatIds(l) :
                    layers[l].feats[k].geom = AtStart[l].feats[k].geom
              /\ \A f \in NamesOf(AtStart[l].fields) \ Int64AtStart(l) :
                    FieldUnchanged(l, f)
              /\ Int64AtStart(l) = {} => layers[l] = AtStart[l]

C26_Witness ==
    /\ Completed
    /\ Len(layers) = 2
    /\ \E f \in ConvertedFields(1) : <<1, f>> \in out.converting
    /\ \E g \in NamesOf(AtStart[1].fields) \ Int64AtStart(1) :
          /\ AtStart[1].feats[1].attrs[g] = I(0, 7)
          /\ layers[1].feats[1].attrs[g] = I(0, 7)
    /\ Int64AtStart(2) = {}
    /\ Len(layers[2].fields) = 2

\* C20: when the container cannot be opened the invocation ends by raising
\* to its caller, not by returning.
C20_OpenFailedRaises ==
    (~openable /\ pc \notin {"call", "none"}) => pc = "raised"

----------------------------------------------------------------------------
(* Properties of export_working_dir *)

ExportEnded == epc \in {"done", "exit", "raised"}

\* the selection policy as the specification words it: deny wins, then the
\* allow-set or the prefix
PolicyEligible(n) ==
    IF n \in exclude_layers THEN FALSE
    ELSE IF n \in include_layers THEN TRUE
    ELSE n # <<>> /\ Head(n) = "X"

\* the names the loop has already dealt with
Handled == {listed[i] : i \in 1..(IF ei > 0 THEN ei - 1 ELSE 0)}

ArtifactOf(n) == artifacts[ShapefilePath(n)]

\* C4: a layer is exported only if it is eligible; a handled name is
\* skipped as ineligible exactly when it is in the deny-set, or in neither
\* the allow-set nor the prefix rule, whatever the container holds; a
\* shapefile changes only for eligible names.
C4_SelectionPrecedence ==
    epc \in {"loop", "done", "exit", "raised"} =>
        /\ \A n \in eout.exporting \cup eout.exported : PolicyEligible(n)
        /\ \A n \in Handled :
              /\ n \in eout.skipped <=> ~PolicyEligible(n)
              /\ PolicyEligible(n) =>
                    n \in eout.not_found \cup eout.empty \cup eout.exporting
        /\ \A n \in LayerNames :
              ArtifactOf(n) # art0[ShapefilePath(n)] => PolicyEligible(n)

C4_Witness ==
    /\ epc = "done"
    /\ Rp \in exclude_layers \cap include_layers
    /\ Rp \in eout.skipped
    /\ Xa \notin exclude_layers \cup include_layers
    /\ Xa \in eout.exported
    /\ xa \notin exclude_layers \cup include_layers
    /\ xa \in eout.skipped

SameAsLayer(art, layer) ==
    /\ art # NoArtifact
    /\ Len(art.feats) = Len(layer.feats)
    /\ {art.fields[i].name : i \in 1..Len(art.fields)} = NamesOf(layer.fields)

\* C5 as claimed: after a completed pass every eligible layer of the
\* container with at least one feature has a shapefile with the same
\* feature count and the same field-name set.
C5_ExportComplete ==
    epc = "done" =>
        \A l \in 1..Len(layers) :
            (PolicyEligible(layers[l].name) /\ Len(layers[l].feats) >= 1)
                => SameAsLayer(ArtifactOf(layers[l].name), layers[l])

\* C5 as amended: after a completed pass every name listed by "kart data
\* ls" that is eligible, names a layer of the container with at least one
\* feature and has no reported creation failure has a shapefile with the
\* same feature count, and with the same field-name set when no field name
\* of the layer is longer than 10 characters.
C5_ExportCompleteListed ==
    epc = "done" =>
        \A i \in 1..Len(listed) :
            LET n == listed[i]
                l == GetLayerByName(layers, n)
            IN  (/\ PolicyEligible(n)
                 /\ l # 0
                 /\ Len(layers[l].feats) >= 1
                 /\ n \notin eout.create_failed)
                => /\ ArtifactOf(n) # NoArtifact
                   /\ Len(ArtifactOf(n).feats) = Len(layers[l].feats)
                   /\ (\A f \in NamesOf(layers[l].fields) : Len(f) <= 10)
                         => SameAsLayer(ArtifactOf(n), layers[l])

C5_Witness ==
    /\ epc = "done"
    /\ \E i \in 1..Len(listed) :
          /\ listed[i] \in eout.exported
          /\ Len(layers[GetLayerByName(layers, listed[i])].feats) >= 1
          /\ SameAsLayer(ArtifactOf(listed[i]),
                         layers[GetLayerByName(layers, listed[i])])
          /\ art0[ShapefilePath(listed[i])] # NoArtifact

\* the layers the pass has to write: listed, eligible, in the container and
\* not skipped as empty
ToWrite ==
    {n \in Range(listed) :
        /\ PolicyEligible(n)
        /\ GetLayerByName(layers, n) # 0
        /\ (Len(layers[GetLayerByName(layers, n)].feats) > 0
            \/ export_empty_layers)}

\* C6: when the creation of the shapefile fails for exactly one of the
\* layers to write, the pass writes the shapefiles of all the others,
\* reports exactly one failure and reports completion.
C6_ExportIsolation ==
    (/\ ExportEnded
     /\ env = AllOk
     /\ feature_fails = {}
     /\ Cardinality(ToWrite \cap create_fails) = 1)
        => /\ \A n \in ToWrite \ create_fails :
                 /\ ArtifactOf(n) # NoArtifact
                 /\ n \in eout.exported
           /\ Cardinality(eout.create_failed) = 1
           /\ eout.completed

\* C12: when the shapefile driver is unavailable the pass ends with a
\* failure status, whatever the layers and the lists are, creates or
\* replaces no shapefile and does not report completion.
C12_DriverFatal ==
    (ExportEnded /\ ~env.driver) =>
        /\ epc \in {"exit", "raised"}
        /\ artifacts = art0
        /\ ~eout.completed

\* C13: a pass ends early only when the container cannot be found or
\* opened or when the driver is unavailable; under any other condition
\* the pass ends only after every name tracked by the tool has been dealt
\* with.
C13_PropagationPolicy ==
    (ExportEnded /\ env.file /\ env.open /\ env.driver) =>
        Range(listed) \subseteq Handled

\* the shapefile a holds the fields and the features of the layer, and the
\* declared encoding
ExactCopy(a, layer) ==
    /\ a # NoArtifact
    /\ a.layer = layer.name
    /\ a.encoding = "encoding"
    /\ a.fields = layer.fields
    /\ Len(a.feats) = Len(layer.feats)
    /\ \A k \in 1..Len(layer.feats) : a.feats[k] = layer.feats[k]

\* the same, the name of a field being compared only when it is not longer
\* than 10 characters, and the values field by field in schema order
CopyUpToWidth(a, layer) ==
    /\ a # NoArtifact
    /\ a.layer = layer.name
    /\ a.encoding = "encoding"
    /\ Len(a.fields) = Len(layer.fields)
    /\ \A i \in 1..Len(layer.fields) :
          /\ a.fields[i].type = layer.fields[i].type
          /\ Len(a.fields[i].name) <= 10
          /\ Len(layer.fields[i].name) <= 10 =>
                a.fields[i].name = layer.fields[i].name
    /\ Len(a.feats) = Len(layer.feats)
    /\ \A k \in 1..Len(layer.feats) :
          /\ a.feats[k].geom = layer.feats[k].geom
          /\ \A i \in 1..Len(layer.fields) :
                a.feats[k].attrs[a.fields[i].name] =
                    layer.feats[k].attrs[layer.fields[i].name]

\* the names exported by the current pass to a path that held a shapefile
Overwritten ==
    {n \in Handled \cap eout.exported : art0[ShapefilePath(n)] # NoArtifact}

EmptyEligible ==
    {n \in Range(listed) :
        /\ PolicyEligible(n)
        /\ GetLayerByName(layers, n) # 0
        /\ Len(layers[GetLayerByName(layers, n)].feats) = 0}

FeatureFaults ==
    {n \in ToWrite \cap feature_fails :
        Len(layers[GetLayerByName(layers, n)].feats) > 0}

\* C17: when appending a feature fails, the pass goes on: the shapefile of
\* that layer holds every other feature, the shapefile of every other layer
\* to write is complete, and the pass reports completion.
C17_FeatureIsolation ==
    (/\ ExportEnded
     /\ env = AllOk
     /\ create_fails = {}
     /\ FeatureFaults # {})
        => /\ eout.completed
           /\ \A n \in ToWrite :
                 LET layer == layers[GetLayerByName(layers, n)]
                 IN  /\ ArtifactOf(n) # NoArtifact
                     /\ n \in FeatureFaults =>
                            Len(ArtifactOf(n).feats) >= Len(layer.feats) - 1
                     /\ n \notin FeatureFaults =>
                            Len(ArtifactOf(n).feats) = Len(layer.feats)

\* C27: distinct layer names have distinct output paths, and a step of the
\* export changes the shapefile of no layer but the one it is writing, which
\* is eligible, in the container, and not an empty layer left out: the
\* shapefile of a skipped layer and of every other layer stays as it is.
C27_ArtifactIsolation ==
    [][/\ \A n, m \in LayerNames : n # m => ShapefilePath(n) # ShapefilePath(m)
       /\ \A n \in LayerNames :
             artifacts'[ShapefilePath(n)] # artifacts[ShapefilePath(n)]
                 => Selected /\ n = layer_name]_vars

C27_Witness ==
    /\ epc = "done"
    /\ art0 = StaleShapefiles
    /\ \E n \in eout.create_failed : ArtifactOf(n) = NoArtifact
    /\ \E n \in eout.exported :
          /\ ArtifactOf(n) # NoArtifact
          /\ ArtifactOf(n) # StaleShapefile(n)
    /\ \E n \in eout.skipped : ArtifactOf(n) = StaleShapefile(n)

----------------------------------------------------------------------------
(* Properties of import_shp_dir *)

ImportEnded == ipc \in {"returned", "raised"}

\* the entries of the directory whose name ends with ".shp"
Shapefiles ==
    {f \in Range(entries) :
        Len(f) >= 4 /\ <<f[Len(f) - 3], f[Len(f) - 2], f[Len(f) - 1], f[Len(f)]>>
                          = <<".", "s", "h", "p">>}

\* how many commands were run for the file f
Attempts(f) ==
    Cardinality({i \in 1..Len(calls) : calls[i][Len(calls[i])] = <<"shp_dir", f>>})

\* C7: once the directory is entered and listed, the command is run exactly
\* once for each .shp entry and for nothing else; when it fails for exactly
\* one of the K artifacts, by status or by raising, K - 1 successes and one
\* failure are printed, wherever the failing artifact stands.
C7_ImportIsolation ==
    (ImportEnded /\ host.chdir /\ host.listdir) =>
        /\ \A f \in Range(entries) :
              Attempts(f) = (IF f \in Shapefiles THEN 1 ELSE 0)
        /\ Len(calls) = Cardinality(Shapefiles)
        /\ Cardinality({f \in Shapefiles : tool[<<"shp_dir", f>>] # "ok"}) = 1
              => /\ Len(iout.success) = Cardinality(Shapefiles) - 1
                 /\ Len(iout.failed) + Len(iout.error) = 1

C7_Witness ==
    /\ ipc = "returned"
    /\ Cardinality(Shapefiles) = 2
    /\ Range(entries) \ Shapefiles # {}
    /\ \E f \in Shapefiles : tool[<<"shp_dir", f>>] = "raises"
    /\ Len(calls) = 2
    /\ Len(iout.success) = 1
    /\ Len(iout.error) = 1

\* C8: however import_shp_dir ends, the working directory is the one the
\* process had before the call.
C8_CwdRestored == ImportEnded => cwd = cwd0

C8_Witness ==
    /\ ipc = "raised"
    /\ host.chdir
    /\ ~host.listdir
    /\ cwd0 # KartRepo
    /\ cwd = cwd0

\* C14: every command given to subprocess.run, by either module, carries
\* the flag --replace-existing before the path of the shapefile.
C14_ReplaceExisting ==
    \A i \in 1..Len(calls) :
        /\ calls[i][Len(calls[i])] \in Range(shps)
        /\ \E j \in 1..(Len(calls[i]) - 1) : calls[i][j] = "--replace-existing"

----------------------------------------------------------------------------
(* Properties of run.py and of gpkg_to_shps *)

\* C18: whenever a pass of export_working_dir is under way or over,
\* int64_to_int32 has been run exactly once on the container and has
\* returned, and no layer of the container holds an Integer64 field.
C18_CoercedBeforeExport ==
    epc \in {"call", "loop", "done", "exit", "raised"} =>
        /\ pc = "returned"
        /\ Len(hist) = 1
        /\ \A l \in 1..Len(layers) : \A i \in 1..Len(layers[l].fields) :
              layers[l].fields[i].type # OFTInteger64

\* C19: in gpkg_to_shps, as in export_working_dir, the prefix rule looks at
\* an uppercase "X" only: a layer named with a leading "X" that is in
\* neither list is exported, and a layer named with a leading "x" is
\* exported only when it is in the include list.
C19_PrefixCaseSensitive ==
    gpc \in {"loop", "done", "raised"} =>
        /\ \A n \in Range(layers_to_export) \cup gout.exported :
              n[1] = "x" => n \in INCLUDE_LAYERS
        /\ (gpc = "done" /\ create_fails = {}) =>
              \A l \in 1..Len(layers) :
                  (/\ layers[l].name[1] = "X"
                   /\ layers[l].name \notin EXCLUDE_LAYERS \cup INCLUDE_LAYERS)
                      => layers[l].name \in gout.exported

\* C28: after a run of gpkg_to_shps in which no call fails, the layers it
\* has written are those export_working_dir writes from the same container
\* with every layer listed, the lists of gpkg_layers.py and empty layers left
\* out, and each shapefile holds the features export_working_dir copies.
C28_SameExport ==
    (gpc = "done" /\ create_fails = {} /\ feature_fails = {}) =>
        \A l \in 1..Len(layers) :
            LET n == layers[l].name
                written == /\ IsEligible(n, EXCLUDE_LAYERS, INCLUDE_LAYERS)
                           /\ layers[l].feats # <<>>
            IN  /\ n \in gout.exported <=> written
                /\ written =>
                      artifacts[ShapefilePath(n)].feats
                          = ShapefileOf(layers[l], Len(layers[l].feats)).feats

----------------------------------------------------------------------------
(* Properties of shp_overview and get_cpg_encoding *)

\* the positions of the shapefiles the loop has gone past
Inspected ==
    {k \in 1..Len(data_dir) : k < si /\ EndsWithShp(data_dir[k].name)}

\* the kinds of the lines printed for the file
KindsFor(f) == {sout[j].kind : j \in {i \in 1..Len(sout) : sout[i].file = f.name}}

\* a step of the inspection of the file raises
Faulty(f) ==
    \/ f.fault = "open_raises"
    \/ f.fault = "srs_raises" /\ f.srs # "none"
    \/ f.fault = "field_raises" /\ f.fields # <<>>

\* every shapefile the loop has gone past has its lines: the failure to
\* open, the error, or the overview and the fields
EachReported ==
    \A k \in Inspected :
        LET f == data_dir[k]
        IN  IF f.fault = "open_none" THEN KindsFor(f) = {"failed"}
            ELSE IF Faulty(f)
            THEN "error" \in KindsFor(f) /\ "failed" \notin KindsFor(f)
            ELSE /\ KindsFor(f) = {"overview", "fields"}
                 /\ \E j \in 1..Len(sout) :
                       /\ sout[j].file = f.name
                       /\ sout[j].kind = "overview"
                       /\ sout[j].count = f.nfeat
                       /\ sout[j + 1] = Line(f, "fields", Len(f.fields))

\* C21: shp_overview changes no file of the directory; once the directory
\* is listed nothing ends the loop before its end, and every shapefile gone
\* past is reported: one that cannot be opened or whose inspection raises
\* by its failure, every other one by its overview and fields.
C21_InspectionIsolation ==
    /\ [](spc # "none" =>
            /\ spc = "raised" => ~dir_ok /\ sout = <<>>
            /\ spc = "done" => si = Len(data_dir) + 1
            /\ EachReported)
    /\ [][data_dir' = data_dir]_vars

C21_Witness ==
    /\ spc = "done"
    /\ \E i, j, k \in 1..Len(data_dir) :
          /\ i < j
          /\ data_dir[i].fault \in {"open_raises", "srs_raises", "field_raises"}
          /\ data_dir[j].fault = "ok"
          /\ EndsWithShp(data_dir[j].name)
          /\ "overview" \in KindsFor(data_dir[j])
          /\ "error" \in KindsFor(data_dir[i])
          /\ ~EndsWithShp(data_dir[k].name)

\* e is s without the whitespace at its two ends
IsStripOf(e, s) ==
    /\ \E i \in 1..(Len(s) + 1) : \E j \in 0..Len(s) :
          /\ e = SubSeq(s, i, j)
          /\ \A m \in 1..(i - 1) : s[m] \in Whitespace
          /\ \A m \in (j + 1)..Len(s) : s[m] \in Whitespace
    /\ e # <<>> => e[1] \notin Whitespace /\ e[Len(e)] \notin Whitespace

\* the encodings printed for the file
EncodingsFor(f) ==
    {sout[j].encoding :
        j \in {i \in 1..Len(sout) : sout[i].file = f.name /\ sout[i].kind = "overview"}}

\* the sidecar of the file is in the directory and can be read
HasReadableCpg(f) ==
    /\ FileAt(data_dir, cpg_filename(f.name)) # 0
    /\ data_dir[FileAt(data_dir, cpg_filename(f.name))].readable

\* C22 as claimed: for a shapefile whose inspection has no fault of its
\* own, whatever its sidecar, the overview is printed and no error or
\* failure; the encoding printed is "Not specified" exactly when the sidecar
\* is missing or cannot be read, and otherwise the content of the sidecar
\* without the whitespace at its ends.
C22_EncodingSentinel ==
    \A k \in Inspected :
        LET f == data_dir[k]
        IN  (f.fault = "ok") =>
                /\ KindsFor(f) = {"overview", "fields"}
                /\ Cardinality(EncodingsFor(f)) = 1
                /\ \A e \in EncodingsFor(f) :
                      /\ (e = NotSpecified) <=> ~HasReadableCpg(f)
                      /\ HasReadableCpg(f) =>
                            IsStripOf(e, data_dir[FileAt(data_dir,
                                             cpg_filename(f.name))].content)

\* C22 as amended: the same, "Not specified" being printed whenever the
\* sidecar is missing or cannot be read (a sidecar that holds that very text
\* gives it too).
C22_EncodingSentinelIf ==
    \A k \in Inspected :
        LET f == data_dir[k]
        IN  (f.fault = "ok") =>
                /\ KindsFor(f) = {"overview", "fields"}
                /\ Cardinality(EncodingsFor(f)) = 1
                /\ \A e \in EncodingsFor(f) :
                      /\ ~HasReadableCpg(f) => e = NotSpecified
                      /\ HasReadableCpg(f) =>
                            IsStripOf(e, data_dir[FileAt(data_dir,
                                             cpg_filename(f.name))].content)

C22_Witness ==
    /\ spc = "done"
    /\ \E k \in Inspected :
          /\ data_dir[k].fault = "ok"
          /\ FileAt(data_dir, cpg_filename(data_dir[k].name)) # 0
          /\ ~HasReadableCpg(data_dir[k])
          /\ EncodingsFor(data_dir[k]) = {NotSpecified}
          /\ KindsFor(data_dir[k]) = {"overview", "fields"}
====
